---- MODULE Spec2Model ----
(***************************************************************************)
(* A model of the TLS reverse proxy: the LRU+TTL response cache            *)
(* (reverse_proxy/cache.py), the backend health state machine and the      *)
(* round-robin balancer (reverse_proxy/load_balancer.py) and the request   *)
(* pipeline (reverse_proxy/reverse_proxy.py).                              *)
(*                                                                         *)
(* Strings the code takes apart or glues together (methods, paths, header  *)
(* values, cache key strings) are sequences of one-character strings.      *)
(* Time is in whole seconds.                                               *)
(***************************************************************************)
EXTENDS Integers, Sequences, FiniteSets, TLC

VARIABLES
    now,            \* time.time()
    cache,          \* LRUCache.cache: OrderedDict, least recently used first
    expiry,         \* LRUCache.expiry: key -> time of the last put
    touch,          \* history: keys by their last successful get or put, oldest first
    lastOp,         \* history: the last cache call made by the cache driver
    readBefore,     \* history: the key a hit get returned right before lastOp, or None
    putsOnly,       \* history: no get has been called so far
    status,         \* BackendServer.status, per backend
    failure_count,  \* BackendServer.failure_count
    last_check,     \* BackendServer.last_check
    last_healthy,   \* BackendServer.last_healthy, NoTime for None
    healthy,        \* BackendServer.healthy: "False" once proxy_request has set it, Unset before
    current,        \* LoadBalancer.current
    lock,           \* LoadBalancer.lock: the thread holding it, or NoThread
    mon_i,          \* monitor thread: index of the backend its for loop is at, NumBackends in the sleep
    pick_pc,        \* per thread: where it is in get_next_backend
    pick_start,     \* per thread: the local `start` of get_next_backend
    pick_ret,       \* per thread: what get_next_backend returned
    seen,           \* history, per thread: the backends the running call examined, with the status read
    picks,          \* history: the last returns (backend, thread) since a status last changed
    probes,         \* history, per backend: whether a probe ever got 200, failed probes since
    probe_log,      \* history, per backend, where it is kept: more about the probes
    hpc,            \* handler thread: where it is in do_METHOD / proxy_request
    req,            \* handler thread: the request being handled
    retries,        \* proxy_request: retries
    last_exception, \* proxy_request: last_exception
    out,            \* the responses written to the client for the request, in order
    headers_buffer, \* handler: _headers_buffer, the status lines and headers queued and not yet sent
    rfile,          \* handler: the bytes of the client's connection not yet read
    requests,       \* history: requests accepted so far
    upcalls,        \* history: urlopen calls made for the request
    reqPicks,       \* history: get_next_backend calls made for the request
    startCurrent,   \* history: LoadBalancer.current when the request came in
    hadFresh,       \* history: the request is a GET whose key had an entry when it came in
    lookupAge,      \* history: the age of the entry the request's cache lookup found, -1 for none
    task_pc,        \* per thread calling the cache: the statement of get or put it is at
    task_arg,       \* per thread: the key and value of its call, and put's local `oldest`
    task_calls,     \* history: the cache calls the threads have made
    missBody,       \* history: per cache key, the body of the last X-Cache: MISS response
    origin,         \* history: per cache key, the upstream body as received for that response
    tried,          \* history: the backends the request's upstream calls went to, in order
    reads,          \* history: the calls of rfile.read made for the request
    sent,           \* history: the upstream requests made for the request, in order
    sawHealthy,     \* history: some backend was Healthy at some moment of the request's handling
    key_args,       \* the arguments of two calls of generate_cache_key
    key_strings,    \* the strings the two calls hashed, <<>> before the calls
    stable,         \* history, where it is kept: no status has changed since the request came in
    up,             \* per backend: "yes" once its /health answers 200 from now on, "any" before
    serves,         \* per backend: whether it answers the proxy's requests, "any" for sometimes
    ring            \* a list of backends of another length with its cursor, and the returns

cacheVars == <<cache, expiry>>
cacheHist == <<touch, lastOp, readBefore, putsOnly>>
taskVars == <<task_pc, task_arg, task_calls>>
keyVars == <<key_args, key_strings>>
envVars == <<up, serves, ring>>
backendVars == <<status, failure_count, last_check, last_healthy, healthy>>
monVars == <<mon_i, probes, probe_log>>
pickVars == <<current, lock, pick_pc, pick_start, pick_ret>>
pickHist == <<seen, picks>>
handlerVars == <<hpc, req, retries, last_exception, out, headers_buffer, rfile>>
attemptHist == <<requests, upcalls, reqPicks, startCurrent, hadFresh, lookupAge, missBody,
                 origin, tried, reads, sent>>
handlerHist == <<attemptHist, sawHealthy, stable>>
vars == <<now, cacheVars, cacheHist, taskVars, keyVars, envVars, backendVars, monVars, pickVars, pickHist,
          handlerVars, handlerHist>>

(***************************************************************************)
(* Bounds of the model.                                                    *)
(***************************************************************************)
capacity == 2       \* LRUCache(capacity): entries the cache may hold
MaxTicks == 3       \* clock advances explored with the monitor running
MaxCacheTicks == 1  \* clock advances of each length explored for the cache on its own
MaxLongTicks == 1   \* advances by a whole TTL explored with the proxy running
NumBackends == 2    \* len(BACKEND_URLS)
MaxFailCount == 4   \* failure_count values explored
MaxRequests == 2    \* requests the handler accepts
MaxCalls == 3       \* cache calls made by the threads that run at the same time
MaxMonitorTicks == 4 \* rounds of the monitor explored with the monitor on its own

(***************************************************************************)
(* Program constants.                                                      *)
(***************************************************************************)
TTL == 300
check_interval == 1
freq_sec == 1
max_failures == 3

(***************************************************************************)
(* Generic helpers on sequences.                                           *)
(***************************************************************************)
Range(s) == {s[i] : i \in 1..Len(s)}

Min(a, b) == IF a < b THEN a ELSE b

Last(s) == s[Len(s)]

\* The last n elements of s.
Suffix(s, n) == SubSeq(s, Len(s) - n + 1, Len(s))

\* s without the elements equal to x.
Without(s, x) == SelectSeq(s, LAMBDA y : y # x)

\* '|'.join(parts) and ''.join: the concatenation of the parts with sep between them.
RECURSIVE Join(_, _)
Join(parts, sep) ==
    IF Len(parts) = 0 THEN <<>>
    ELSE IF Len(parts) = 1 THEN parts[1]
    ELSE parts[1] \o sep \o Join(Tail(parts), sep)

\* Python's `sub in s` on strings.
Contains(s, sub) ==
    \E i \in 0..(Len(s) - Len(sub)) : SubSeq(s, i + 1, i + Len(sub)) = sub

(***************************************************************************)
(* Text: a string is a sequence of one-character strings.                  *)
(***************************************************************************)
\* The characters the model's strings use, in code point order.
Alphabet ==
    <<" ", "'", ",", "-", ".", "/", "0", "1", "2", "3", "4", "5", "6", "7", "8", "9",
      ":", ";", "=", "A", "B", "C", "D", "E", "F", "G", "H", "I", "J", "K", "L", "M",
      "N", "O", "P", "Q", "R", "S", "T", "U", "V", "W", "X", "Y", "Z", "a", "b", "c",
      "d", "e", "f", "g", "h", "i", "j", "k", "l", "m", "n", "o", "p", "q", "r", "s",
      "t", "u", "v", "w", "x", "y", "z", "|">>

OrdOf == [c \in Range(Alphabet) |-> CHOOSE i \in 1..Len(Alphabet) : Alphabet[i] = c]

\* ord(c)
Ord(c) == OrdOf[c]

UpperCase ==
    <<"A", "B", "C", "D", "E", "F", "G", "H", "I", "J", "K", "L", "M", "N", "O", "P",
      "Q", "R", "S", "T", "U", "V", "W", "X", "Y", "Z">>

LowerCase ==
    <<"a", "b", "c", "d", "e", "f", "g", "h", "i", "j", "k", "l", "m", "n", "o", "p",
      "q", "r", "s", "t", "u", "v", "w", "x", "y", "z">>

\* str.lower(), character by character.
LowerOf ==
    [c \in Range(Alphabet) |->
        IF \E i \in 1..Len(UpperCase) : UpperCase[i] = c
        THEN LowerCase[CHOOSE i \in 1..Len(UpperCase) : UpperCase[i] = c]
        ELSE c]

LowerChar(c) == LowerOf[c]

Lower(s) == [i \in 1..Len(s) |-> LowerChar(s[i])]

\* s < t in Python's string order (code points, a proper prefix first).
StrLess(s, t) ==
    LET differ == {i \in 1..Min(Len(s), Len(t)) : s[i] # t[i]}
    IN  IF differ = {} THEN Len(s) < Len(t)
        ELSE LET i == CHOOSE d \in differ : \A e \in differ : d <= e
             IN  Ord(s[i]) < Ord(t[i])

\* sorted(S) for a set of strings.
RECURSIVE Sorted(_)
Sorted(S) ==
    IF S = {} THEN <<>>
    ELSE LET m == CHOOSE x \in S : \A y \in S \ {x} : StrLess(x, y)
         IN  <<m>> \o Sorted(S \ {m})

GET == <<"G", "E", "T">>
POST == <<"P", "O", "S", "T">>
PUT == <<"P", "U", "T">>
DELETE == <<"D", "E", "L", "E", "T", "E">>
PATCH == <<"P", "A", "T", "C", "H">>
HEAD == <<"H", "E", "A", "D">>
OPTIONS == <<"O", "P", "T", "I", "O", "N", "S">>

\* The do_* methods of the handler.
Methods == {GET, POST, PUT, DELETE, PATCH, HEAD, OPTIONS}

identity == <<"i", "d", "e", "n", "t", "i", "t", "y">>
gzip == <<"g", "z", "i", "p">>
br == <<"b", "r">>
deflate == <<"d", "e", "f", "l", "a", "t", "e">>

H_Accept == <<"A", "c", "c", "e", "p", "t">>
H_AcceptEncoding == <<"A", "c", "c", "e", "p", "t", "-", "E", "n", "c", "o", "d", "i", "n", "g">>
H_ApiKey == <<"X", "-", "A", "P", "I", "-", "K", "e", "y">>
H_Host == <<"H", "o", "s", "t">>
H_Connection == <<"C", "o", "n", "n", "e", "c", "t", "i", "o", "n">>
H_ForwardedFor == <<"X", "-", "F", "o", "r", "w", "a", "r", "d", "e", "d", "-", "F", "o", "r">>
H_ForwardedHost == <<"X", "-", "F", "o", "r", "w", "a", "r", "d", "e", "d", "-", "H", "o", "s", "t">>
H_ForwardedProto == <<"X", "-", "F", "o", "r", "w", "a", "r", "d", "e", "d", "-", "P", "r", "o", "t", "o">>

(***************************************************************************)
(* The cache key.                                                          *)
(***************************************************************************)
\* hashlib.md5(...).hexdigest(): an uninterpreted digest, taken collision free.
md5(s) == <<"md5", s>>

\* str(body) of a bytes object: b'...'. A body that was not read (None) is <<>>.
StrOfBytes(body) == <<"b", "'">> \o body \o <<"'">>

\* The header lines generate_cache_key adds, for the names left to visit in sorted order.
RECURSIVE KeyHeaderParts(_, _)
KeyHeaderParts(names, headers) ==
    IF Len(names) = 0 THEN <<>>
    ELSE LET header == Head(names)
             rest == KeyHeaderParts(Tail(names), headers)
         IN  IF Lower(header) \in {Lower(H_Accept), <<"c", "o", "n", "t", "e", "n", "t", "-", "t", "y", "p", "e">>}
             THEN <<header \o <<":">> \o headers[header]>> \o rest
             ELSE rest

\* The string generate_cache_key hashes.
key_string(method, path, headers, body, encoding) ==
    Join(<<method, path, encoding>>
            \o KeyHeaderParts(Sorted(DOMAIN headers), headers)
            \o (IF Len(body) > 0 THEN <<StrOfBytes(body)>> ELSE <<>>),
         <<"|">>)

generate_cache_key(method, path, headers, body, encoding) ==
    md5(key_string(method, path, headers, body, encoding))

(***************************************************************************)
(* LRUCache (reverse_proxy/cache.py).  cache is the OrderedDict as the     *)
(* sequence of its items, oldest first; expiry is the dict of put times.   *)
(***************************************************************************)
\* The keys of the OrderedDict, in its order.
CacheKeys(c) == [i \in 1..Len(c) |-> c[i].key]

\* key in self.cache
InCache(c, key) == \E i \in 1..Len(c) : c[i].key = key

\* self.cache[key]
CacheValue(c, key) == c[CHOOSE i \in 1..Len(c) : c[i].key = key].value

\* self.cache.pop(key)
CachePop(c, key) == SelectSeq(c, LAMBDA e : e.key # key)

\* A move_to_end that leaves the order alone.
move_to_end_Nowhere(c, key) == c

\* self.cache.move_to_end(key)
move_to_end(c, key) == CachePop(c, key) \o <<[key |-> key, value |-> CacheValue(c, key)]>>

\* self.cache[key] = value: a present key keeps its place, a new one goes last.
CacheSet(c, key, value) ==
    IF InCache(c, key)
    THEN [i \in 1..Len(c) |-> IF c[i].key = key THEN [key |-> key, value |-> value] ELSE c[i]]
    ELSE Append(c, [key |-> key, value |-> value])

\* A pop that leaves the timestamp where it is.
ExpiryPop_Keeps(e, key) == e

\* self.expiry.pop(key)
ExpiryPop(e, key) == [k \in (DOMAIN e) \ {key} |-> e[k]]

\* self.expiry[key] = t
ExpirySet(e, key, t) == [k \in (DOMAIN e) \cup {key} |-> IF k = key THEN t ELSE e[k]]

\* An expiry test that is off by one: an entry of age TTL is gone already.
Expired_AtTTL(key) == now - expiry[key] >= TTL

\* The test of LRUCache.get that an entry is too old to be returned.
Expired(key) == now - expiry[key] > TTL

\* What LRUCache.get(key) returns: <<value>>, or <<>> for None.
get_result(key) ==
    IF InCache(cache, key) /\ ~Expired(key) THEN <<CacheValue(cache, key)>> ELSE <<>>

\* A get that returns a hit without marking the entry recently used.
get_NoRefresh(key) ==
    IF InCache(cache, key) /\ Expired(key)
    THEN /\ cache' = CachePop(cache, key)
         /\ expiry' = ExpiryPop(expiry, key)
    ELSE UNCHANGED <<cache, expiry>>

\* LRUCache.get(key): its effect on the cache.
get(key) ==
    IF InCache(cache, key)
    THEN IF Expired(key)
         THEN /\ cache' = CachePop(cache, key)
              /\ expiry' = ExpiryPop(expiry, key)
         ELSE /\ cache' = move_to_end(cache, key)
              /\ expiry' = expiry
    ELSE UNCHANGED <<cache, expiry>>

\* An eviction that starts one entry too late.
Evict_OffByOne(c, e) ==
    IF Len(c) > capacity + 1
    THEN <<Tail(c), ExpiryPop(e, c[1].key)>>
    ELSE <<c, e>>

\* The eviction at the end of LRUCache.put, on the maps after the insertion.
Evict(c, e) ==
    IF Len(c) > capacity
    THEN LET oldest == c[1].key
         IN  <<Tail(c), ExpiryPop(e, oldest)>>
    ELSE <<c, e>>

\* A put that leaves the timestamp of a key it finds in the cache.
put_KeepsStamp(key, value) ==
    LET moved == IF InCache(cache, key) THEN move_to_end(cache, key) ELSE cache
        set == CacheSet(moved, key, value)
        stamped == IF InCache(cache, key) THEN expiry ELSE ExpirySet(expiry, key, now)
        after == Evict(set, stamped)
    IN  /\ cache' = after[1]
        /\ expiry' = after[2]

\* LRUCache.put(key, value).
put(key, value) ==
    LET moved == IF InCache(cache, key) THEN move_to_end(cache, key) ELSE cache
        set == CacheSet(moved, key, value)
        stamped == ExpirySet(expiry, key, now)
        after == Evict(set, stamped)
    IN  /\ cache' = after[1]
        /\ expiry' = after[2]

(***************************************************************************)
(* The clock.                                                              *)
(***************************************************************************)
\* time.time() moves on by d seconds, one second or a whole TTL, within the
\* bounds: at most `short` single seconds after at most `long` TTLs.
Tick(d, short, long) ==
    /\ d \in {1, TTL}
    /\ d = 1 => (now - 1) % TTL < short
    /\ d = TTL => (now - 1) \div TTL < long
    /\ now' = now + d

(***************************************************************************)
(* BackendServer and the monitor thread (reverse_proxy/load_balancer.py).  *)
(***************************************************************************)
NOT_INITIATED == "NOT_INITIATED"
HEALTHY == "HEALTHY"
UNREACHABLE == "UNREACHABLE"
HostStatus == {NOT_INITIATED, HEALTHY, UNREACHABLE}

\* Indices into LoadBalancer.backends.
Backends == 0..(NumBackends - 1)

\* last_healthy = None
NoTime == 0 - 1

\* The attribute `healthy` of a backend that was never assigned.
Unset == "unset"

\* What a probe can come to: status 200, another status, or an exception.
ProbeOutcomes == {"200", "non200", "error"}

\* No log of the probes is kept.
NoLog == <<>>

\* The history `stable` is not kept.
NotKept == "off"

\* No list of another length is looked at.
NoRing == [status |-> <<>>, current |-> 0, returned |-> <<>>]

\* The log of a backend's probes before the first: what the failed probes
\* since the last 200 came to, and the status and failure_count the last 200 found.
NoProbes == [kinds |-> {}, was |-> NOT_INITIATED, count |-> 0]

\* The log of backend b after a probe that came to outcome.
Logged(log, b, outcome) ==
    IF outcome = "200"
    THEN [kinds |-> {}, was |-> status[b], count |-> failure_count[b]]
    ELSE [log EXCEPT !.kinds = @ \cup {outcome}]

\* A demotion test that forgets to ask whether the backend was ever healthy.
WasHealthy_Always(b) == TRUE

\* `self.last_healthy and self.last_healthy > 0`
WasHealthy(b) == last_healthy[b] # NoTime /\ last_healthy[b] # 0 /\ last_healthy[b] > 0

\* The early return of check_health: probed less than check_interval ago.
TooSoon(b) == now - last_check[b] < check_interval

\* A demotion that waits for one more failure.
StatusAfterFailure_Late(b, fc) ==
    IF fc > max_failures /\ WasHealthy(b) THEN UNREACHABLE ELSE status[b]

\* The status check_health leaves after a failed probe that made the count fc.
StatusAfterFailure(b, fc) ==
    IF fc >= max_failures /\ WasHealthy(b) THEN UNREACHABLE ELSE status[b]

\* A check_health that leaves failure_count as it is when the probe is answered 200.
check_health_KeepCount(b, outcome) ==
    /\ IF outcome = "200"
       THEN /\ status' = [status EXCEPT ![b] = HEALTHY]
            /\ failure_count' = failure_count
            /\ last_healthy' = [last_healthy EXCEPT ![b] = now]
       ELSE /\ failure_count' = [failure_count EXCEPT ![b] = @ + 1]
            /\ status' = [status EXCEPT ![b] = StatusAfterFailure(b, failure_count[b] + 1)]
            /\ last_healthy' = last_healthy
    /\ last_check' = [last_check EXCEPT ![b] = now]

\* check_health from the answer of the probe on: the fields it writes.
check_health(b, outcome) ==
    /\ IF outcome = "200"
       THEN /\ status' = [status EXCEPT ![b] = HEALTHY]
            /\ failure_count' = [failure_count EXCEPT ![b] = 0]
            /\ last_healthy' = [last_healthy EXCEPT ![b] = now]
       ELSE /\ failure_count' = [failure_count EXCEPT ![b] = @ + 1]
            /\ status' = [status EXCEPT ![b] = StatusAfterFailure(b, failure_count[b] + 1)]
            /\ last_healthy' = last_healthy
    /\ last_check' = [last_check EXCEPT ![b] = now]

\* One pass of the for loop of _monitor_backends: check_health on backend
\* mon_i. It returns at once when the backend was probed less than
\* check_interval ago; else the probe is sent and its outcome recorded.
MonitorCheck(outcome) ==
    /\ mon_i < NumBackends
    /\ outcome # "200" => failure_count[mon_i] < MaxFailCount
    /\ up[mon_i] = "yes" => outcome = "200"
    /\ IF TooSoon(mon_i)
       THEN UNCHANGED <<backendVars, probes, probe_log, picks>>
       ELSE /\ check_health(mon_i, outcome)
            /\ UNCHANGED healthy
            /\ probes' = [probes EXCEPT ![mon_i] =
                            IF outcome = "200" THEN [ok |-> TRUE, fails |-> 0]
                            ELSE [ok |-> @.ok, fails |-> @.fails + 1]]
            /\ probe_log' = IF probe_log = NoLog THEN NoLog
                            ELSE [probe_log EXCEPT ![mon_i] = Logged(@, mon_i, outcome)]
            /\ picks' = IF status' # status THEN <<>> ELSE picks
    /\ mon_i' = mon_i + 1
    /\ sawHealthy' = (sawHealthy \/ (hpc # "idle" /\ status'[mon_i] = HEALTHY))
    /\ stable' = IF stable = "yes" /\ status' # status THEN "no" ELSE stable
    /\ UNCHANGED <<envVars, keyVars, taskVars, now, cacheVars, cacheHist, pickVars, seen, handlerVars, attemptHist>>

\* A monitor that gives up when no backend is left to lose: its thread ends
\* after a round that finds every backend UNREACHABLE.
MonitorSleep_UntilAllDown(ticks) ==
    /\ mon_i = NumBackends
    /\ \E b \in Backends : status[b] # UNREACHABLE
    /\ Tick(freq_sec, ticks, 0)
    /\ mon_i' = 0
    /\ UNCHANGED <<envVars, keyVars, taskVars, cacheVars, cacheHist, backendVars, probes, probe_log,
                   pickVars, pickHist, handlerVars, handlerHist>>

\* time.sleep(self.freq_sec) at the end of a round: the next round begins
\* freq_sec seconds later.
MonitorSleep(ticks) ==
    /\ mon_i = NumBackends
    /\ Tick(freq_sec, ticks, 0)
    /\ mon_i' = 0
    /\ UNCHANGED <<envVars, keyVars, taskVars, cacheVars, cacheHist, backendVars, probes, probe_log, pickVars, pickHist,
                   handlerVars, handlerHist>>

(***************************************************************************)
(* LoadBalancer.get_next_backend, one thread t calling it.                 *)
(***************************************************************************)
Threads == {"h1", "h2"}
NoThread == "none"

\* get_next_backend returned None
NoBackend == 0 - 1

\* A balancer that does not wait for the lock.
LockFree_NoLock == TRUE

\* `with self.lock:` can be entered.
LockFree == lock = NoThread

\* A test that only skips the backends marked unreachable.
Usable_NotUnreachable(st) == st # UNREACHABLE

\* The test of the loop that the backend just read can be returned.
Usable(st) == st = HEALTHY

\* The last n elements of s, or s when it is shorter.
Recent(s, n) == IF Len(s) <= n THEN s ELSE Suffix(s, n)

\* A call that examines the backend at the cursor before it moves on.
PickCall_NoAdvance(t) ==
    /\ pick_pc[t] \in {"idle", "ret"}
    /\ LockFree
    /\ lock' = t
    /\ pick_start' = [pick_start EXCEPT ![t] = current]
    /\ current' = current
    /\ pick_pc' = [pick_pc EXCEPT ![t] = "examine"]
    /\ pick_ret' = [pick_ret EXCEPT ![t] = NoBackend]

\* The call enters `with self.lock:`, sets start = self.current and moves the
\* cursor on for the first time.
PickCall(t) ==
    /\ pick_pc[t] \in {"idle", "ret"}
    /\ LockFree
    /\ lock' = t
    /\ pick_start' = [pick_start EXCEPT ![t] = current]
    /\ current' = (current + 1) % NumBackends
    /\ pick_pc' = [pick_pc EXCEPT ![t] = "examine"]
    /\ pick_ret' = [pick_ret EXCEPT ![t] = NoBackend]

\* self.current = (self.current + 1) % len(self.backends)
PickAdvance(t) ==
    /\ pick_pc[t] = "advance"
    /\ current' = (current + 1) % NumBackends
    /\ pick_pc' = [pick_pc EXCEPT ![t] = "examine"]
    /\ UNCHANGED <<lock, pick_start, pick_ret>>

\* backend = self.backends[self.current] and the two tests of the loop body.
PickExamine(t) ==
    /\ pick_pc[t] = "examine"
    /\ IF Usable(status[current])
       THEN /\ pick_ret' = [pick_ret EXCEPT ![t] = current]
            /\ pick_pc' = [pick_pc EXCEPT ![t] = "ret"]
            /\ lock' = NoThread
       ELSE IF current = pick_start[t]
       THEN /\ pick_ret' = [pick_ret EXCEPT ![t] = NoBackend]
            /\ pick_pc' = [pick_pc EXCEPT ![t] = "ret"]
            /\ lock' = NoThread
       ELSE /\ pick_pc' = [pick_pc EXCEPT ![t] = "advance"]
            /\ UNCHANGED <<pick_ret, lock>>
    /\ UNCHANGED <<current, pick_start>>

\* The histories of the calls: what each call read, and the run of returns.
PickHistory(t) ==
    /\ seen' = [seen EXCEPT ![t] =
                  IF pick_pc[t] = "examine" THEN Append(@, [b |-> current, st |-> status[current]])
                  ELSE IF pick_pc[t] = "advance" THEN @
                  ELSE <<>>]
    /\ picks' = IF pick_pc[t] = "examine" /\ pick_ret'[t] # NoBackend
                THEN Recent(Append(picks, [b |-> pick_ret'[t], t |-> t]), NumBackends)
                ELSE picks

\* A step of thread t inside get_next_backend.
get_next_backend(t) ==
    /\ PickCall(t) \/ PickAdvance(t) \/ PickExamine(t)
    /\ PickHistory(t)
    /\ UNCHANGED <<envVars, keyVars, taskVars, now, cacheVars, cacheHist, backendVars, monVars, handlerVars,
                   handlerHist>>

(***************************************************************************)
(* The cache on its own: any sequence of get and put calls, and the clock. *)
(***************************************************************************)
PathA == <<"/", "a">>
PathB == <<"/", "b">>
Paths == {PathA, PathB}

BodyHi == <<"h", "i">>
BodyYo == <<"y", "o">>

\* No key: what the histories hold before a first call.
NoKey == <<>>

\* Keys of GET requests, one more than the cache can hold (four at most).
KeyPool ==
    <<generate_cache_key(GET, PathA, <<>>, <<>>, identity),
      generate_cache_key(GET, PathB, <<>>, <<>>, identity),
      generate_cache_key(GET, PathA, <<>>, <<>>, gzip),
      generate_cache_key(GET, PathB, <<>>, <<>>, gzip)>>

DriverKeys == {KeyPool[i] : i \in 1..Min(capacity + 1, Len(KeyPool))}

\* Values as proxy_request stores them: (status, headers, content).
DriverValues ==
    {[status |-> 200, headers |-> <<>>, content |-> c] : c \in {BodyHi, BodyYo}}

NoOp == [op |-> "none", key |-> NoKey, ret |-> <<>>, had |-> <<>>, age |-> 0 - 1, gone |-> {}]

\* The record of a call: the value and the age of the key's entry before it (age -1
\* when it had none), its result, and the keys it took out of the cache.
OpRecord(op, key, ret) ==
    [op |-> op, key |-> key, ret |-> ret,
     had |-> IF InCache(cache, key) THEN <<CacheValue(cache, key)>> ELSE <<>>,
     age |-> IF InCache(cache, key) THEN now - expiry[key] ELSE 0 - 1,
     gone |-> (Range(CacheKeys(cache)) \cup (IF op = "put" THEN {key} ELSE {}))
                \ Range(CacheKeys(cache'))]

\* The key the last call read with a hit, if it was a get.
JustRead == IF lastOp.op = "get" /\ lastOp.ret # <<>> THEN lastOp.key ELSE NoKey

\* Some caller calls cache.get(key).
CallGet(key) ==
    /\ get(key)
    /\ lastOp' = OpRecord("get", key, get_result(key))
    /\ touch' = IF get_result(key) # <<>> THEN Append(Without(touch, key), key) ELSE touch
    /\ readBefore' = JustRead
    /\ putsOnly' = FALSE
    /\ UNCHANGED <<envVars, keyVars, taskVars, now, backendVars, monVars, pickVars, pickHist, handlerVars,
                   handlerHist>>

\* Some caller calls cache.put(key, value).
CallPut(key, value) ==
    /\ put(key, value)
    /\ lastOp' = OpRecord("put", key, <<>>)
    /\ touch' = Append(Without(touch, key), key)
    /\ readBefore' = JustRead
    /\ putsOnly' = putsOnly
    /\ UNCHANGED <<envVars, keyVars, taskVars, now, backendVars, monVars, pickVars, pickHist, handlerVars,
                   handlerHist>>

\* Time passes for the cache: a second, or a whole TTL.
CacheTick ==
    /\ \E d \in {1, TTL} : Tick(d, MaxCacheTicks, MaxCacheTicks)
    /\ UNCHANGED <<envVars, keyVars, taskVars, cacheVars, cacheHist, backendVars, monVars, pickVars, pickHist,
                   handlerVars, handlerHist>>

(***************************************************************************)
(* The cache called by threads that run at the same time.  The class takes *)
(* no lock, so a thread may be switched out between any two statements of  *)
(* get and put: each statement that reads or writes one of the two maps is *)
(* a step.                                                                 *)
(***************************************************************************)
Tasks == {"c1", "c2"}

NoCall == [key |-> NoKey, value |-> <<>>, oldest |-> NoKey]

\* The thread goes on to the statement at pc.
Goto(t, pc) == task_pc' = [task_pc EXCEPT ![t] = pc]

\* The call of thread t returns.
Return(t) ==
    /\ task_pc' = [task_pc EXCEPT ![t] = "idle"]
    /\ task_arg' = [task_arg EXCEPT ![t] = NoCall]

\* The statement of thread t raises (KeyError, StopIteration): the call is over.
Raise(t) ==
    /\ task_pc' = [task_pc EXCEPT ![t] = "raised"]
    /\ UNCHANGED <<cache, expiry, task_arg>>

\* Thread t calls get(key) or put(key, value).
TaskCall(t, op, key, value) ==
    /\ task_pc[t] = "idle"
    /\ task_calls < MaxCalls
    /\ task_calls' = task_calls + 1
    /\ Goto(t, op)
    /\ task_arg' = [task_arg EXCEPT ![t] = [key |-> key, value |-> value, oldest |-> NoKey]]
    /\ UNCHANGED <<cache, expiry>>

\* get: `if key in self.cache:`, else `return None`.
GetIn(t) ==
    /\ task_pc[t] = "get"
    /\ IF InCache(cache, task_arg[t].key)
       THEN Goto(t, "g_age") /\ UNCHANGED task_arg
       ELSE Return(t)
    /\ UNCHANGED <<cache, expiry>>

\* get: `if time.time() - self.expiry[key] > self.TTL:`
GetAge(t) ==
    /\ task_pc[t] = "g_age"
    /\ IF task_arg[t].key \notin DOMAIN expiry
       THEN Raise(t)
       ELSE /\ Goto(t, IF Expired(task_arg[t].key) THEN "g_pop" ELSE "g_move")
            /\ UNCHANGED <<cache, expiry, task_arg>>

\* get: `self.cache.pop(key)`
GetPop(t) ==
    /\ task_pc[t] = "g_pop"
    /\ IF ~InCache(cache, task_arg[t].key)
       THEN Raise(t)
       ELSE /\ cache' = CachePop(cache, task_arg[t].key)
            /\ Goto(t, "g_popexp")
            /\ UNCHANGED <<expiry, task_arg>>

\* get: `self.expiry.pop(key)` and `return None`
GetPopExpiry(t) ==
    /\ task_pc[t] = "g_popexp"
    /\ IF task_arg[t].key \notin DOMAIN expiry
       THEN Raise(t)
       ELSE /\ expiry' = ExpiryPop(expiry, task_arg[t].key)
            /\ Return(t)
            /\ UNCHANGED cache

\* get: `self.cache.move_to_end(key)`
GetMove(t) ==
    /\ task_pc[t] = "g_move"
    /\ IF ~InCache(cache, task_arg[t].key)
       THEN Raise(t)
       ELSE /\ cache' = move_to_end(cache, task_arg[t].key)
            /\ Goto(t, "g_ret")
            /\ UNCHANGED <<expiry, task_arg>>

\* get: `return self.cache[key]`
GetReturn(t) ==
    /\ task_pc[t] = "g_ret"
    /\ IF ~InCache(cache, task_arg[t].key)
       THEN Raise(t)
       ELSE Return(t) /\ UNCHANGED <<cache, expiry>>

\* put: `if key in self.cache:`
PutIn(t) ==
    /\ task_pc[t] = "put"
    /\ Goto(t, IF InCache(cache, task_arg[t].key) THEN "p_move" ELSE "p_set")
    /\ UNCHANGED <<cache, expiry, task_arg>>

\* put: `self.cache.move_to_end(key)`
PutMove(t) ==
    /\ task_pc[t] = "p_move"
    /\ IF ~InCache(cache, task_arg[t].key)
       THEN Raise(t)
       ELSE /\ cache' = move_to_end(cache, task_arg[t].key)
            /\ Goto(t, "p_set")
            /\ UNCHANGED <<expiry, task_arg>>

\* put: `self.cache[key] = value`
PutSet(t) ==
    /\ task_pc[t] = "p_set"
    /\ cache' = CacheSet(cache, task_arg[t].key, task_arg[t].value)
    /\ Goto(t, "p_stamp")
    /\ UNCHANGED <<expiry, task_arg>>

\* put: `self.expiry[key] = time.time()`
PutStamp(t) ==
    /\ task_pc[t] = "p_stamp"
    /\ expiry' = ExpirySet(expiry, task_arg[t].key, now)
    /\ Goto(t, "p_len")
    /\ UNCHANGED <<cache, task_arg>>

\* put: `if len(self.cache) > self.capacity:`, else the call returns.
PutLen(t) ==
    /\ task_pc[t] = "p_len"
    /\ IF Len(cache) > capacity
       THEN Goto(t, "p_oldest") /\ UNCHANGED task_arg
       ELSE Return(t)
    /\ UNCHANGED <<cache, expiry>>

\* put: `oldest = next(iter(self.cache))`
PutOldest(t) ==
    /\ task_pc[t] = "p_oldest"
    /\ IF Len(cache) = 0
       THEN Raise(t)
       ELSE /\ task_arg' = [task_arg EXCEPT ![t].oldest = cache[1].key]
            /\ Goto(t, "p_popitem")
            /\ UNCHANGED <<cache, expiry>>

\* put: `self.cache.popitem(last=False)`
PutPopitem(t) ==
    /\ task_pc[t] = "p_popitem"
    /\ IF Len(cache) = 0
       THEN Raise(t)
       ELSE /\ cache' = Tail(cache)
            /\ Goto(t, "p_popexp")
            /\ UNCHANGED <<expiry, task_arg>>

\* put: `self.expiry.pop(oldest)`
PutPopExpiry(t) ==
    /\ task_pc[t] = "p_popexp"
    /\ IF task_arg[t].oldest \notin DOMAIN expiry
       THEN Raise(t)
       ELSE /\ expiry' = ExpiryPop(expiry, task_arg[t].oldest)
            /\ Return(t)
            /\ UNCHANGED cache

\* A statement of get in thread t.
GetStep(t) ==
    GetIn(t) \/ GetAge(t) \/ GetPop(t) \/ GetPopExpiry(t) \/ GetMove(t) \/ GetReturn(t)

\* A statement of put in thread t.
PutStep(t) ==
    \/ PutIn(t) \/ PutMove(t) \/ PutSet(t) \/ PutStamp(t)
    \/ PutLen(t) \/ PutOldest(t) \/ PutPopitem(t) \/ PutPopExpiry(t)

\* A step of thread t: a call, or the next statement of the call it is in.
TaskStep(t) ==
    /\ \/ \E k \in DriverKeys : TaskCall(t, "get", k, <<>>)
       \/ \E k \in DriverKeys, v \in DriverValues : TaskCall(t, "put", k, v)
       \/ GetStep(t) /\ UNCHANGED task_calls
       \/ PutStep(t) /\ UNCHANGED task_calls
    /\ UNCHANGED <<envVars, keyVars, now, cacheHist, backendVars, monVars, pickVars, pickHist,
                   handlerVars, handlerHist>>

(***************************************************************************)
(* SSLReverseProxyHandler (reverse_proxy/reverse_proxy.py).  The server is *)
(* an http.server.HTTPServer: one thread handles one request at a time,    *)
(* while the monitor thread runs.                                          *)
(***************************************************************************)
VALID_API_KEY == <<"t", "e", "s", "t", "-", "a", "p", "i", "-", "k", "e", "y", "-", "1", "2", "3">>
WrongKey == <<"w", "r", "o", "n", "g">>

\* A header the request does not carry (headers.get gives None).
Absent == <<"None">>

H_ContentLength == <<"C", "o", "n", "t", "e", "n", "t", "-", "L", "e", "n", "g", "t", "h">>
H_ContentEncoding == <<"C", "o", "n", "t", "e", "n", "t", "-", "E", "n", "c", "o", "d", "i", "n", "g">>
H_ContentType == <<"C", "o", "n", "t", "e", "n", "t", "-", "T", "y", "p", "e">>
H_XCache == <<"X", "-", "C", "a", "c", "h", "e">>
H_XBackendServer == <<"X", "-", "B", "a", "c", "k", "e", "n", "d", "-", "S", "e", "r", "v", "e", "r">>
H_XRetryCount == <<"X", "-", "R", "e", "t", "r", "y", "-", "C", "o", "u", "n", "t">>
H_Server == <<"S", "e", "r", "v", "e", "r">>
H_Date == <<"D", "a", "t", "e">>

HIT == <<"H", "I", "T">>
MISS == <<"M", "I", "S", "S">>

\* The header names proxy_request drops from requests and responses.
HopByHop ==
    {<<"c", "o", "n", "n", "e", "c", "t", "i", "o", "n">>, <<"k", "e", "e", "p", "-", "a", "l", "i", "v", "e">>, <<"p", "r", "o", "x", "y", "-", "a", "u", "t", "h", "e", "n", "t", "i", "c", "a", "t", "e">>,
     <<"p", "r", "o", "x", "y", "-", "a", "u", "t", "h", "o", "r", "i", "z", "a", "t", "i", "o", "n">>, <<"t", "e">>, <<"t", "r", "a", "i", "l", "e", "r", "s">>,
     <<"t", "r", "a", "n", "s", "f", "e", "r", "-", "e", "n", "c", "o", "d", "i", "n", "g">>, <<"u", "p", "g", "r", "a", "d", "e">>}

\* The names proxy_request drops from an upstream response.
ResponseDropped == HopByHop \cup {<<"c", "o", "n", "t", "e", "n", "t", "-", "e", "n", "c", "o", "d", "i", "n", "g">>, <<"c", "o", "n", "t", "e", "n", "t", "-", "l", "e", "n", "g", "t", "h">>}

Digits == <<"0", "1", "2", "3", "4", "5", "6", "7", "8", "9">>

\* str(n) for n >= 0.
RECURSIVE Str(_)
Str(n) == IF n < 10 THEN <<Digits[n + 1]>> ELSE Str(n \div 10) \o <<Digits[(n % 10) + 1]>>

\* A dict from a set of <<name, value>> pairs with distinct names.
Dict(pairs) == [n \in {q[1] : q \in pairs} |-> (CHOOSE q \in pairs : q[1] = n)[2]]

\* The list items of hs whose lower-cased name is not in dropped.
FilterHeaders(hs, dropped) == SelectSeq(hs, LAMBDA h : Lower(h[1]) \notin dropped)

\* The value of the first header called name in the list hs, or Absent.
HeaderOf(hs, name) ==
    IF \E i \in 1..Len(hs) : hs[i][1] = name
    THEN hs[CHOOSE i \in 1..Len(hs) : hs[i][1] = name /\ \A j \in 1..(i - 1) : hs[j][1] # name][2]
    ELSE Absent

\* The requests of the model: a method, a path, the X-API-Key and the
\* Accept-Encoding header (Absent when not sent).
AE_GzipDeflate == <<"g", "z", "i", "p", ",", " ", "d", "e", "f", "l", "a", "t", "e">>

\* The requests explored: every method without the key and with a wrong one,
\* and the GET with the key, with and without an Accept-Encoding.
Requests ==
    [method : Methods, path : {PathA}, api_key : {Absent, WrongKey}, accept_encoding : {Absent},
     body : {<<>>}]
    \cup [method : {GET}, path : {PathA}, api_key : {VALID_API_KEY},
          accept_encoding : {Absent, AE_GzipDeflate}, body : {<<>>}]

\* The requests explored with transfers that fail: the GET with and without an
\* Accept-Encoding, and a POST, all with the key.
PipeRequests ==
    [method : {GET}, path : {PathA}, api_key : {VALID_API_KEY},
     accept_encoding : {Absent, AE_GzipDeflate}, body : {<<>>}]
    \cup [method : {POST}, path : {PathA}, api_key : {VALID_API_KEY}, accept_encoding : {Absent},
          body : {<<>>}]

\* The requests explored for the methods: one of each, with the key.
MethodRequests ==
    [method : Methods, path : {PathA}, api_key : {VALID_API_KEY}, accept_encoding : {Absent},
     body : {<<>>}]

\* The requests explored for the reading of the body: a POST with a body of
\* two bytes, sent with its Content-Length.
BodyRequests ==
    [method : {POST}, path : {PathA}, api_key : {VALID_API_KEY}, accept_encoding : {Absent},
     body : {BodyYo}]

NoRequest ==
    [method |-> <<>>, path |-> <<>>, api_key |-> Absent, accept_encoding |-> Absent, body |-> <<>>]

\* self.headers of a request, as received.
RequestHeaders(r) ==
    Dict({<<H_Host, <<"l", "o", "c", "a", "l", "h", "o", "s", "t", ":", "8", "4", "4", "3">>>>, <<H_Connection, <<"k", "e", "e", "p", "-", "a", "l", "i", "v", "e">>>>}
         \cup (IF r.api_key # Absent THEN {<<H_ApiKey, r.api_key>>} ELSE {})
         \cup (IF r.accept_encoding # Absent THEN {<<H_AcceptEncoding, r.accept_encoding>>} ELSE {})
         \cup (IF Len(r.body) > 0 THEN {<<H_ContentLength, Str(Len(r.body))>>} ELSE {}))

\* A validate_api_key that lets a request without the header through.
validate_api_key_MissingOk(r) == r.api_key = Absent \/ r.api_key = VALID_API_KEY

\* validate_api_key: `not api_key or api_key != VALID_API_KEY` sends the 401.
validate_api_key(r) ==
    ~(r.api_key = Absent \/ Len(r.api_key) = 0 \/ r.api_key # VALID_API_KEY)

\* The headers proxy_request forwards: the request's without the hop-by-hop
\* ones, and the three X-Forwarded headers.
ForwardedHeaders(r) ==
    LET hs == RequestHeaders(r)
        kept == {n \in DOMAIN hs : Lower(n) \notin HopByHop}
    IN  [n \in kept \cup {H_ForwardedFor, H_ForwardedHost, H_ForwardedProto} |->
            IF n = H_ForwardedFor THEN <<"1", "2", "7", ".", "0", ".", "0", ".", "1">>
            ELSE IF n = H_ForwardedHost
                 THEN (IF H_Host \in DOMAIN hs THEN hs[H_Host] ELSE <<>>)
            ELSE IF n = H_ForwardedProto THEN <<"h", "t", "t", "p", "s">>
            ELSE hs[n]]

\* get_accepted_encoding: substring tests on the Accept-Encoding value.
get_accepted_encoding(r) ==
    LET accept_encoding == IF r.accept_encoding = Absent THEN <<>> ELSE r.accept_encoding
    IN  IF Contains(accept_encoding, br) THEN br
        ELSE IF Contains(accept_encoding, gzip) THEN gzip
        ELSE IF Contains(accept_encoding, deflate) THEN deflate
        ELSE identity

\* compress_content: each codec frames the bytes in its own way.
compress_content(content, encoding) ==
    IF encoding = gzip THEN <<"gz[">> \o content \o <<"]crc", "len">>
    ELSE IF encoding = br THEN <<"br[">> \o content \o <<"]">>
    ELSE IF encoding = deflate THEN <<"zl[">> \o content \o <<"]adler">>
    ELSE content

\* int(s) for a string of digits.
RECURSIVE ParseInt(_)
ParseInt(s) ==
    IF Len(s) = 0 THEN 0
    ELSE 10 * ParseInt(SubSeq(s, 1, Len(s) - 1)) + (CHOOSE d \in 0..9 : Digits[d + 1] = s[Len(s)])

\* content_length = int(self.headers.get('Content-Length', 0)), worked out
\* once for each request of the model.
ContentLengthOf ==
    [r \in Requests \cup PipeRequests \cup BodyRequests \cup MethodRequests |->
        LET hs == RequestHeaders(r)
        IN  IF H_ContentLength \in DOMAIN hs THEN ParseInt(hs[H_ContentLength]) ELSE 0] @@ <<>>

\* What self.rfile.read(n) can come to. With n bytes there it returns them.
\* With fewer it waits for the client: it returns what there is when the
\* client closes its side, and does not return while the client waits for
\* its response.
ReadOutcomes(n, stream) == IF Len(stream) >= n THEN {"data"} ELSE {"eof", "wait"}

\* The cache key proxy_request computes for each request of the model, worked
\* out once for all of them, with the body as the client sent it (only a GET
\* uses the key, and the GETs of the model have no body).
RequestKeyOf ==
    [r \in Requests \cup PipeRequests \cup BodyRequests \cup MethodRequests |->
        generate_cache_key(r.method, r.path, ForwardedHeaders(r), r.body,
                           get_accepted_encoding(r))] @@ <<>>

RequestKey(r) == RequestKeyOf[r]

\* BaseHTTPRequestHandler.send_response: the status line and the Server and Date headers.
send_response(code) ==
    [status |-> code, headers |-> <<<<H_Server, <<"B", "a", "s", "e", "H", "T", "T", "P">>>>, <<H_Date, <<"n", "o", "w">>>>>>, body |-> <<>>]

\* BaseHTTPRequestHandler.send_error(code, message): the error page, with
\* Connection: close; no body is written for HEAD.
send_error(r, code, message) ==
    LET page == <<"<html>", message, "</html>">>
        base == send_response(code)
    IN  [status |-> code,
         headers |-> base.headers \o <<<<H_Connection, <<"c", "l", "o", "s", "e">>>>,
                                       <<H_ContentType, <<"t", "e", "x", "t", "/", "h", "t", "m", "l", ";", "c", "h", "a", "r", "s", "e", "t", "=", "u", "t", "f", "-", "8">>>>,
                                       <<H_ContentLength, Str(Len(page))>>>>,
         body |-> IF r.method = HEAD THEN <<>> ELSE page]

\* What backend b may answer to a request of the proxy: anything when
\* nothing is fixed about it, a response when it works, an error when not.
Answers(b, o) ==
    /\ serves[b] = "ok" => o.kind = "ok"
    /\ serves[b] = "fail" => o.kind # "ok"

\* An urlopen that hands back the response of an error status instead of
\* raising HTTPError.
UpstreamOutcomes_NoRaise ==
    {[kind |-> "ok", code |-> 200, body |-> <<"h", "i">>],
     [kind |-> "ok", code |-> 503, body |-> <<>>],
     [kind |-> "url", code |-> 0, body |-> <<>>]}

\* What an upstream call can come to: a response (urlopen returns), an
\* HTTPError for an error status, or a URLError.
UpstreamOutcomes ==
    {[kind |-> "ok", code |-> 200, body |-> b] : b \in {BodyHi, BodyYo}}
        \cup {[kind |-> "http", code |-> 503, body |-> <<>>],
              [kind |-> "url", code |-> 0, body |-> <<>>]}

\* response.getheaders() of an upstream response with this body.
UpstreamHeaders(body) ==
    <<<<H_ContentType, <<"a", "p", "p", "l", "i", "c", "a", "t", "i", "o", "n", "/", "j", "s", "o", "n">>>>,
      <<H_ContentLength, Str(Len(body))>>,
      <<H_Connection, <<"c", "l", "o", "s", "e">>>>>>

NoException == [kind |-> "none", code |-> 0, reason |-> "none"]

\* The exception an attempt ends with.
ExceptionOf(o) ==
    IF o.kind = "http" THEN [kind |-> "http", code |-> o.code, reason |-> "Service Unavailable"]
    ELSE [kind |-> "url", code |-> 0, reason |-> "Connection refused"]

NoHealthyBackend ==
    [kind |-> "other", code |-> 0, reason |-> "No healthy backend servers available"]

\* The response of the cache hit branch of proxy_request.
HitResponse(cached) ==
    [status |-> cached.status,
     headers |-> send_response(cached.status).headers
                    \o FilterHeaders(cached.headers, HopByHop)
                    \o <<<<H_XCache, HIT>>>>,
     body |-> cached.content]

\* BACKEND_URLS[b]: https://127.0.0.1:<8000 + b>.
BackendUrl(b) ==
    <<"h", "t", "t", "p", "s", ":", "/", "/", "1", "2", "7", ".", "0", ".", "0", ".", "1", ":", "8", "0", "0">> \o Str(b)

\* A retry header that is sent on the first attempt too.
RetryCountHeader_Always(n) == <<<<H_XRetryCount, Str(n)>>>>

\* `if retries > 0: self.send_header('X-Retry-Count', str(retries))`
RetryCountHeader(n) == IF n > 0 THEN <<<<H_XRetryCount, Str(n)>>>> ELSE <<>>

\* The response of the upstream branch of proxy_request, content being the
\* body after compression.
MissResponse(o, content, encoding, b, n) ==
    [status |-> o.code,
     headers |-> send_response(o.code).headers
                    \o (IF encoding # identity THEN <<<<H_ContentEncoding, encoding>>>> ELSE <<>>)
                    \o FilterHeaders(UpstreamHeaders(o.body), ResponseDropped)
                    \o <<<<H_ContentLength, Str(Len(content))>>,
                         <<H_XCache, MISS>>,
                         <<H_XBackendServer, BackendUrl(b)>>>>
                    \o RetryCountHeader(n),
     body |-> content]

\* The response after the retry loop, from last_exception.
ExhaustedResponse(r, e) ==
    IF e.kind = "http" THEN send_error(r, e.code, e.reason) ELSE send_error(r, 500, e.reason)

\* The handler thread, as a caller of get_next_backend.
Handler == "h1"

max_retries == 2

\* What else an upstream call can come to: urlopen returns the response, its
\* status is queued by send_response, and response.read() raises.
ReadFailure == [kind |-> "read", code |-> 200, body |-> <<>>]

\* A write to the client's socket goes through, or raises part of the way.
ClientWrites == {"ok", "fail"}

IncompleteRead == [kind |-> "other", code |-> 0, reason |-> "IncompleteRead"]
BrokenPipe == [kind |-> "other", code |-> 0, reason |-> "Broken pipe"]

\* The bytes of content that reached the client when wfile.write raised.
Partial(content) == SubSeq(content, 1, Len(content) \div 2)

\* The status line send_response_only queues, as a line of the header block.
StatusLine == <<"H", "T", "T", "P", "/", "1", ".", "0">>

\* What send_response and send_header queued for a response: its status line
\* and its header lines.
Lines(response) == <<<<StatusLine, Str(response.status)>>>> \o response.headers

\* The lines of the queued responses, in order.
RECURSIVE LinesOfAll(_)
LinesOfAll(queued) ==
    IF Len(queued) = 0 THEN <<>> ELSE Lines(Head(queued)) \o LinesOfAll(Tail(queued))

\* end_headers / flush_headers: the whole of _headers_buffer is written at
\* once, what failed attempts left in it first. The client reads the first
\* status line as the status and the lines after it as the header block.
Flush(buffer, response) ==
    LET lines == LinesOfAll(buffer) \o Lines(response)
    IN  [status |-> IF Len(buffer) = 0 THEN response.status ELSE buffer[1].status,
         headers |-> Tail(lines),
         body |-> response.body]

\* A proxy that looks up and stores the responses of every method.
UsesCache_Any(method) == TRUE

\* `if method == "GET":` before cache.get and before cache.put.
UsesCache(method) == method = GET

\* An except branch that takes the backend out of rotation.
MarkUnhealthy_Unreachable(b) ==
    /\ status' = IF b # NoBackend THEN [status EXCEPT ![b] = UNREACHABLE] ELSE status
    /\ UNCHANGED <<failure_count, last_check, last_healthy, healthy>>

\* `if backend: backend.healthy = False` in the except branch, b being what
\* get_next_backend returned.
MarkUnhealthy(b) ==
    /\ healthy' = IF b # NoBackend THEN [healthy EXCEPT ![b] = "False"] ELSE healthy
    /\ UNCHANGED <<status, failure_count, last_check, last_healthy>>

\* The record of a cache call made by the handler.
HandlerCacheHist(op, key, ret) ==
    /\ lastOp' = OpRecord(op, key, ret)
    /\ UNCHANGED <<touch, readBefore, putsOnly>>

\* A loop that makes one attempt and no retry.
LoopContinues_NoRetry(n) == n <= 0

\* A loop test that lets one more attempt through.
LoopContinues_OneMore(n) == n <= max_retries + 1

\* `while retries <= max_retries:`
LoopContinues(n) == n <= max_retries

\* The top of the while loop with retries = n and last_exception = e, the
\* responses in `written` sent and `buffer` queued: the call of
\* get_next_backend, or, the retries used up, the error response after the loop.
Attempt(n, e, written, buffer) ==
    /\ retries' = n
    /\ last_exception' = e
    /\ IF LoopContinues(n)
       THEN /\ PickCall(Handler)
            /\ hpc' = "picking"
            /\ reqPicks' = reqPicks + 1
            /\ out' = written
            /\ headers_buffer' = buffer
       ELSE /\ out' = Append(written, Flush(buffer, ExhaustedResponse(req, e)))
            /\ headers_buffer' = <<>>
            /\ hpc' = "done"
            /\ UNCHANGED <<pickVars, reqPicks>>

\* The top of the loop after an attempt that wrote nothing.
StartAttempt(n, e) == Attempt(n, e, out, headers_buffer)

\* HTTPServer.serve_forever takes the next connection only when the handler of
\* the last one has returned: process_request runs the handler in the
\* server's own thread.
ServerFree == hpc = "idle"

\* do_GET .. do_OPTIONS: a request comes in; validate_api_key answers 401 and
\* the handler returns, or proxy_request starts.
do_METHOD(r) ==
    /\ ServerFree
    /\ requests < MaxRequests
    /\ requests' = requests + 1
    /\ req' = r
    /\ startCurrent' = current
    /\ hadFresh' = (r.method = GET /\ validate_api_key(r) /\ InCache(cache, RequestKey(r)))
    /\ sawHealthy' = \E b \in Backends : status[b] = HEALTHY
    /\ stable' = IF stable = NotKept THEN NotKept ELSE "yes"
    /\ rfile' = r.body
    /\ IF validate_api_key(r)
       THEN StartAttempt(0, NoException)
       ELSE /\ hpc' = "done"
            /\ out' = <<send_error(r, 401, "Unauthorized - Invalid or missing API key")>>
            /\ UNCHANGED <<retries, last_exception, headers_buffer, pickVars, reqPicks>>
    /\ UNCHANGED <<envVars, keyVars, taskVars, now, cacheVars, cacheHist, backendVars, monVars, pickHist,
                   upcalls, lookupAge, missBody, origin, tried, reads, sent>>

\* The handler thread runs the loop of get_next_backend.
Picking ==
    /\ hpc = "picking"
    /\ PickAdvance(Handler) \/ PickExamine(Handler)
    /\ UNCHANGED <<envVars, keyVars, taskVars, now, cacheVars, cacheHist, backendVars, monVars, pickHist,
                   handlerVars, handlerHist>>

\* get_next_backend has returned: None raises, and the except branch counts the
\* retry; else the headers are computed, the body is read from the client
\* (Content-Length bytes, when it is more than 0), the encoding and the key
\* are computed, a GET looks into the cache, and either the cached response
\* is written (the write w going through, or raising into the except branch)
\* or the upstream request is sent. A read that waits for bytes the client
\* does not send keeps the handler in rfile.read.
AfterPick(w) ==
    /\ hpc = "picking"
    /\ pick_pc[Handler] = "ret"
    /\ IF pick_ret[Handler] = NoBackend
       THEN /\ w = "ok"
            /\ StartAttempt(retries + 1, NoHealthyBackend)
            /\ UNCHANGED <<cacheVars, cacheHist, upcalls, lookupAge, tried, rfile, reads, sent>>
       ELSE \E rd \in ReadOutcomes(ContentLengthOf[req], rfile) :
            LET content_length == ContentLengthOf[req]
                body == IF content_length > 0
                        THEN SubSeq(rfile, 1, Min(content_length, Len(rfile)))
                        ELSE <<>>
                cache_key == RequestKey(req)
                cached_response == IF UsesCache(req.method) THEN get_result(cache_key) ELSE <<>>
            IN  /\ reads' = IF content_length > 0 THEN reads + 1 ELSE reads
                /\ IF rd = "wait"
                   THEN /\ w = "ok"
                        /\ hpc' = "reading"
                        /\ UNCHANGED <<cacheVars, cacheHist, lookupAge, out, headers_buffer,
                                       retries, last_exception, pickVars, reqPicks, upcalls,
                                       tried, rfile, sent>>
                   ELSE /\ rfile' = SubSeq(rfile, Len(body) + 1, Len(rfile))
                        /\ IF UsesCache(req.method)
                           THEN /\ get(cache_key)
                                /\ HandlerCacheHist("get", cache_key, cached_response)
                                /\ lookupAge' = IF InCache(cache, cache_key)
                                                THEN now - expiry[cache_key] ELSE 0 - 1
                           ELSE UNCHANGED <<cacheVars, cacheHist, lookupAge>>
                        /\ IF cached_response # <<>>
                           THEN LET response ==
                                      Flush(headers_buffer, HitResponse(cached_response[1]))
                                IN  /\ IF w = "ok"
                                       THEN /\ out' = Append(out, response)
                                            /\ hpc' = "done"
                                            /\ headers_buffer' = <<>>
                                            /\ UNCHANGED <<retries, last_exception, pickVars,
                                                           reqPicks>>
                                       ELSE Attempt(retries + 1, BrokenPipe,
                                                    Append(out, [response EXCEPT
                                                                    !.body = Partial(@)]),
                                                    <<>>)
                                    /\ UNCHANGED <<upcalls, tried, sent>>
                           ELSE /\ w = "ok"
                                /\ hpc' = "upstream"
                                /\ upcalls' = upcalls + 1
                                /\ tried' = Append(tried, pick_ret[Handler])
                                /\ sent' = Append(sent, [method |-> req.method, path |-> req.path,
                                                         headers |-> ForwardedHeaders(req),
                                                         body |-> body])
                                /\ UNCHANGED <<out, headers_buffer, retries, last_exception,
                                               pickVars, reqPicks>>
    /\ IF retries' # retries THEN MarkUnhealthy(pick_ret[Handler]) ELSE UNCHANGED backendVars
    /\ UNCHANGED <<envVars, keyVars, taskVars, now, monVars, pickHist, req,
                   requests, startCurrent, hadFresh, missBody, origin, sawHealthy, stable>>

\* urlopen comes back. With a response: its status is queued, its body read
\* and compressed, the headers are sent, a GET is stored and the body is
\* written, the write w going through or raising. With an exception, from
\* urlopen or from response.read(): the except branch counts the retry.
Upstream(o, w) ==
    /\ hpc = "upstream"
    /\ Answers(pick_ret[Handler], o)
    /\ IF o.kind = "ok"
       THEN LET accepted_encoding == get_accepted_encoding(req)
                content == IF accepted_encoding # identity
                           THEN compress_content(o.body, accepted_encoding)
                           ELSE o.body
                cache_key == RequestKey(req)
                response == Flush(headers_buffer,
                                  MissResponse(o, content, accepted_encoding,
                                               pick_ret[Handler], retries))
            IN  /\ IF UsesCache(req.method)
                   THEN /\ put(cache_key, [status |-> o.code, headers |-> UpstreamHeaders(o.body),
                                           content |-> content])
                        /\ HandlerCacheHist("put", cache_key, <<>>)
                        /\ missBody' = [k \in (DOMAIN missBody) \cup {cache_key} |->
                                            IF k = cache_key THEN response.body ELSE missBody[k]]
                        /\ origin' = [k \in (DOMAIN origin) \cup {cache_key} |->
                                            IF k = cache_key THEN o.body ELSE origin[k]]
                   ELSE UNCHANGED <<cacheVars, cacheHist, missBody, origin>>
                /\ IF w = "ok"
                   THEN /\ out' = Append(out, response)
                        /\ hpc' = "done"
                        /\ headers_buffer' = <<>>
                        /\ UNCHANGED <<retries, last_exception, pickVars, reqPicks>>
                   ELSE Attempt(retries + 1, BrokenPipe,
                                Append(out, [response EXCEPT !.body = Partial(@)]), <<>>)
       ELSE /\ w = "ok"
            /\ IF o.kind = "read"
               THEN Attempt(retries + 1, IncompleteRead, out,
                            Append(headers_buffer, send_response(o.code)))
               ELSE StartAttempt(retries + 1, ExceptionOf(o))
            /\ UNCHANGED <<cacheVars, cacheHist, missBody, origin>>
    /\ IF retries' # retries THEN MarkUnhealthy(pick_ret[Handler]) ELSE UNCHANGED backendVars
    /\ UNCHANGED <<envVars, keyVars, taskVars, now, monVars, pickHist, req, rfile, requests, upcalls,
                   startCurrent, hadFresh, lookupAge, tried, reads, sent, sawHealthy, stable>>

\* do_METHOD returns: the handler is done with the request and its locals are
\* gone; the server goes back to waiting for a request.
Finish ==
    /\ hpc = "done"
    /\ hpc' = "idle"
    /\ req' = NoRequest
    /\ retries' = 0
    /\ last_exception' = NoException
    /\ out' = <<>>
    /\ headers_buffer' = <<>>
    /\ rfile' = <<>>
    /\ pick_pc' = [pick_pc EXCEPT ![Handler] = "idle"]
    /\ pick_start' = [pick_start EXCEPT ![Handler] = 0]
    /\ pick_ret' = [pick_ret EXCEPT ![Handler] = NoBackend]
    /\ seen' = [seen EXCEPT ![Handler] = <<>>]
    /\ upcalls' = 0
    /\ reqPicks' = 0
    /\ startCurrent' = 0
    /\ hadFresh' = FALSE
    /\ lookupAge' = 0 - 1
    /\ tried' = <<>>
    /\ reads' = 0
    /\ sent' = <<>>
    /\ sawHealthy' = FALSE
    /\ stable' = IF stable = NotKept THEN NotKept ELSE "idle"
    /\ UNCHANGED <<envVars, keyVars, taskVars, now, cacheVars, cacheHist, backendVars, monVars, current, lock, picks,
                   requests, missBody, origin>>

\* A whole TTL passes while the proxy runs.
ProxyTick ==
    /\ hpc # "done"
    /\ Tick(TTL, MaxCacheTicks, MaxLongTicks)
    /\ UNCHANGED <<envVars, keyVars, taskVars, cacheVars, cacheHist, backendVars, monVars, pickVars, pickHist,
                   handlerVars, handlerHist>>

(***************************************************************************)
(* generate_cache_key on its own: two calls, on any two sets of arguments. *)
(***************************************************************************)
AcceptAny == <<"x">>
TypeJson == <<"j">>

\* Accept values that hold a '|': one ends like a Content-Type line of the
\* key string, the other like the str() of a body.
AcceptValues ==
    {Absent, AcceptAny,
     AcceptAny \o <<"|">> \o H_ContentType \o <<":">> \o TypeJson,
     AcceptAny \o <<"|">> \o StrOfBytes(BodyYo)}

\* The headers dict of a call: Accept and Content-Type when sent, and Host, a
\* header the key leaves out, or not.
KeyHeaders(accept, type, host) ==
    Dict((IF accept # Absent THEN {<<H_Accept, accept>>} ELSE {})
         \cup (IF type # Absent THEN {<<H_ContentType, type>>} ELSE {})
         \cup (IF host THEN {<<H_Host, <<"h">>>>} ELSE {}))

\* The arguments of a call of generate_cache_key.
KeyCalls ==
    {[method |-> m, path |-> p, headers |-> KeyHeaders(a, t, h), body |-> b, encoding |-> e] :
        m \in {GET, POST}, p \in Paths, a \in AcceptValues, t \in {Absent, TypeJson},
        h \in BOOLEAN, b \in {<<>>, BodyYo}, e \in {identity, gzip}}

NoKeyCalls == <<>>

\* The two calls are made: the strings they hash.
KeyCall ==
    /\ key_strings = <<>>
    /\ key_args # NoKeyCalls
    /\ key_strings' =
          [i \in 1..2 |-> key_string(key_args[i].method, key_args[i].path, key_args[i].headers,
                                     key_args[i].body, key_args[i].encoding)]
    /\ UNCHANGED <<envVars, key_args, taskVars, now, cacheVars, cacheHist, backendVars, monVars, pickVars,
                   pickHist, handlerVars, handlerHist>>

\* The state after the classes are loaded and run_ssl_proxy has built the
\* balancer: an empty cache, backends never probed, no request.
Constructed ==
    /\ now = 1
    /\ cache = <<>>
    /\ expiry = [k \in {} |-> 0]
    /\ touch = <<>>
    /\ lastOp = NoOp
    /\ readBefore = NoKey
    /\ putsOnly = TRUE
    /\ task_pc = [t \in Tasks |-> "idle"]
    /\ task_arg = [t \in Tasks |-> NoCall]
    /\ task_calls = 0
    /\ status = [b \in Backends |-> NOT_INITIATED]
    /\ failure_count = [b \in Backends |-> 0]
    /\ last_check = [b \in Backends |-> 0]
    /\ last_healthy = [b \in Backends |-> NoTime]
    /\ healthy = [b \in Backends |-> Unset]
    /\ current = 0
    /\ lock = NoThread
    /\ mon_i = 0
    /\ probes = [b \in Backends |-> [ok |-> FALSE, fails |-> 0]]
    /\ pick_pc = [t \in Threads |-> "idle"]
    /\ pick_start = [t \in Threads |-> 0]
    /\ pick_ret = [t \in Threads |-> NoBackend]
    /\ seen = [t \in Threads |-> <<>>]
    /\ picks = <<>>
    /\ hpc = "idle"
    /\ req = NoRequest
    /\ retries = 0
    /\ last_exception = NoException
    /\ out = <<>>
    /\ headers_buffer = <<>>
    /\ rfile = <<>>
    /\ requests = 0
    /\ upcalls = 0
    /\ reqPicks = 0
    /\ startCurrent = 0
    /\ hadFresh = FALSE
    /\ lookupAge = 0 - 1
    /\ missBody = [k \in {} |-> <<>>]
    /\ origin = [k \in {} |-> <<>>]
    /\ tried = <<>>
    /\ reads = 0
    /\ sent = <<>>
    /\ sawHealthy = FALSE
    /\ up = [b \in Backends |-> "any"]

\* Nothing is fixed about what the backends answer to requests, the history
\* `stable` is not kept and no other list of backends is looked at.
Undrawn ==
    /\ stable = NotKept
    /\ serves = [b \in Backends |-> "any"]
    /\ ring = NoRing

Init ==
    /\ Constructed
    /\ key_args = NoKeyCalls
    /\ key_strings = <<>>
    /\ probe_log = NoLog
    /\ Undrawn

\* The same state, with the arguments of the two calls of generate_cache_key drawn.
InitKey ==
    /\ Constructed
    /\ key_args \in KeyCalls \X KeyCalls
    /\ key_strings = <<>>
    /\ probe_log = NoLog
    /\ Undrawn

NextKey == KeyCall

SpecKey == InitKey /\ [][NextKey]_vars

NextCache ==
    \/ \E k \in DriverKeys : CallGet(k)
    \/ \E k \in DriverKeys, v \in DriverValues : CallPut(k, v)
    \/ CacheTick

SpecCache == Init /\ [][NextCache]_vars

\* The cache with two threads calling it at the same time, and the clock.
NextTasks ==
    \/ \E t \in Tasks : TaskStep(t)
    \/ CacheTick

SpecTasks == Init /\ [][NextTasks]_vars

(***************************************************************************)
(* The balancer and the monitor on their own: two threads picking.         *)
(***************************************************************************)
NextBalancer ==
    \/ \E t \in Threads : get_next_backend(t)
    \/ \E o \in ProbeOutcomes : MonitorCheck(o)
    \/ MonitorSleep(MaxTicks)

SpecBalancer == Init /\ [][NextBalancer]_vars

\* The monitor thread on its own, over more rounds.
NextMonitor ==
    \/ \E o \in ProbeOutcomes : MonitorCheck(o)
    \/ MonitorSleep(MaxMonitorTicks)

\* The same state as Init, with the log of the probes kept.
InitMonitor ==
    /\ Constructed
    /\ key_args = NoKeyCalls
    /\ key_strings = <<>>
    /\ probe_log = [b \in Backends |-> NoProbes]
    /\ Undrawn

SpecMonitor == InitMonitor /\ [][NextMonitor]_vars

(***************************************************************************)
(* The proxy: the handler thread, the monitor thread and the clock.        *)
(***************************************************************************)
\* The steps of the handler thread.
HandlerNext ==
    \/ \E r \in Requests : do_METHOD(r)
    \/ Picking
    \/ AfterPick("ok")
    \/ \E o \in UpstreamOutcomes : Upstream(o, "ok")
    \/ Finish

\* The monitor thread runs at any moment but the one between the handler's
\* last write of a response and its return: the return touches nothing the
\* monitor reads or writes, so which of the two comes first changes nothing.
MonitorNext(ticks) ==
    /\ hpc # "done"
    /\ \/ \E o \in ProbeOutcomes : MonitorCheck(o)
       \/ MonitorSleep(ticks)

Next ==
    \/ HandlerNext
    \/ MonitorNext(MaxTicks)

Spec == Init /\ [][Next]_vars

\* The proxy over a longer time: fewer rounds of the monitor, and a whole TTL
\* may pass at any moment.
NextTTL ==
    \/ HandlerNext
    \/ MonitorNext(MaxCacheTicks)
    \/ ProxyTick

SpecTTL == Init /\ [][NextTTL]_vars

(***************************************************************************)
(* The proxy with transfers that fail: requests that carry the key, upstream *)
(* bodies that break off while they are read, and writes to the client     *)
(* that raise.                                                             *)
(***************************************************************************)
PipeHandlerNext ==
    \/ \E r \in PipeRequests : do_METHOD(r)
    \/ Picking
    \/ \E w \in ClientWrites : AfterPick(w)
    \/ \E o \in UpstreamOutcomes \cup {ReadFailure}, w \in ClientWrites : Upstream(o, w)
    \/ Finish

NextPipe ==
    \/ PipeHandlerNext
    \/ MonitorNext(MaxCacheTicks)

SpecPipe == Init /\ [][NextPipe]_vars

\* The handler thread keeps running: a step of proxy_request that can be
\* taken is taken, and an upstream call comes back, with a response or an
\* exception.
HandlerFairness ==
    /\ WF_vars(Picking)
    /\ WF_vars(\E w \in ClientWrites : AfterPick(w))
    /\ WF_vars(\E o \in UpstreamOutcomes \cup {ReadFailure}, w \in ClientWrites : Upstream(o, w))

\* The retry loop under that fairness, for the requests that negotiate no
\* encoding.
RetryRequests == {r \in PipeRequests : r.accept_encoding = Absent}

NextRetry ==
    \/ \E r \in RetryRequests : do_METHOD(r)
    \/ Picking
    \/ \E w \in ClientWrites : AfterPick(w)
    \/ \E o \in UpstreamOutcomes \cup {ReadFailure}, w \in ClientWrites : Upstream(o, w)
    \/ Finish
    \/ MonitorNext(MaxCacheTicks)

SpecRetry == Init /\ [][NextRetry]_vars /\ HandlerFairness

(***************************************************************************)
(* The proxy with requests that carry a body.                              *)
(***************************************************************************)
NextBody ==
    \/ \E r \in BodyRequests : do_METHOD(r)
    \/ Picking
    \/ AfterPick("ok")
    \/ \E o \in UpstreamOutcomes : Upstream(o, "ok")
    \/ Finish
    \/ MonitorNext(MaxCacheTicks)

SpecBody == Init /\ [][NextBody]_vars

(***************************************************************************)
(* The proxy with requests of every method, all with the key.              *)
(***************************************************************************)
NextMethods ==
    \/ \E r \in MethodRequests : do_METHOD(r)
    \/ Picking
    \/ AfterPick("ok")
    \/ \E o \in UpstreamOutcomes : Upstream(o, "ok")
    \/ Finish
    \/ MonitorNext(MaxCacheTicks)

SpecMethods == Init /\ [][NextMethods]_vars

(***************************************************************************)
(* Properties of the cache.                                                *)
(***************************************************************************)
\* The position of x in s.
IndexIn(s, x) == CHOOSE i \in 1..Len(s) : s[i] = x

\* The last call was a put that pushed an entry out.
PutEvicted == lastOp.op = "put" /\ lastOp.gone # {}

\* C1: between operations the cache never holds more than `capacity` entries,
\* whatever gets and puts were called; a put that makes it capacity + 1 evicts
\* before it returns.
C1_SizeWithinCapacity == Len(cache) <= capacity

\* C1 witness: a put on a full cache has just evicted, and the cache is full.
C1_Witness == PutEvicted /\ Len(cache) = capacity

\* C2: after puts only (touching N = Len(touch) distinct keys) the cache holds
\* min(N, capacity) entries, its keys are the last `capacity` keys by most recent
\* touch, in that order, and a put that overflows pushes out exactly one entry,
\* the least recently touched one.
C2_PutsKeepMostRecent ==
    putsOnly =>
        LET n == Min(Len(touch), capacity)
        IN  /\ Len(cache) = n
            /\ CacheKeys(cache) = Suffix(touch, n)
            /\ lastOp.gone =
                  IF lastOp.op = "put" /\ lastOp.had = <<>> /\ Len(touch) > capacity
                  THEN {touch[Len(touch) - capacity]}
                  ELSE {}

\* C2 witness: only puts so far, more keys than the cache holds, and the last
\* put pushed one out.
C2_Witness == putsOnly /\ Len(touch) > capacity /\ PutEvicted

\* C4: the order of the cache is the order of the last successful get or put of
\* its keys, so the entry an overflowing put pushes out is the one touched
\* longest ago, and with room for two a key that was just read survives the
\* next put.
C4_RecencyOrder ==
    /\ CacheKeys(cache) = SelectSeq(touch, LAMBDA k : InCache(cache, k))
    /\ PutEvicted =>
          /\ Cardinality(lastOp.gone) = 1
          /\ \A e \in lastOp.gone : \A i \in 1..Len(cache) :
                IndexIn(touch, e) < IndexIn(touch, cache[i].key)
    /\ (capacity >= 2 /\ lastOp.op = "put" /\ readBefore # NoKey) => InCache(cache, readBefore)

\* C4 witness: a get hit a key, the next call was a put that evicted, and the
\* key that was read is still there.
C4_Witness == PutEvicted /\ readBefore # NoKey /\ InCache(cache, readBefore)

(***************************************************************************)
(* Properties of the balancer and of the health state machine.             *)
(***************************************************************************)
AllHealthy == \A b \in Backends : status[b] = HEALTHY

\* C5: while every backend is Healthy and no status changes, NumBackends
\* successive returns of get_next_backend, from whichever threads, name every
\* backend once.
C5_FairRotation ==
    AllHealthy =>
        /\ \A i, j \in 1..Len(picks) : i # j => picks[i].b # picks[j].b
        /\ Len(picks) = NumBackends => {picks[i].b : i \in 1..Len(picks)} = Backends

\* C5 witness: all Healthy, a full round of returns, made by more than one thread.
C5_Witness ==
    /\ AllHealthy
    /\ Len(picks) = NumBackends
    /\ \E i, j \in 1..Len(picks) : picks[i].t # picks[j].t

\* C6: what get_next_backend returns was Healthy when the loop read it, and it
\* returns None only after reading every backend once and finding none Healthy,
\* whatever the monitor does in between.
C6_OnlyHealthyReturned ==
    \A t \in Threads :
        pick_pc[t] = "ret" =>
            IF pick_ret[t] # NoBackend
            THEN /\ Len(seen[t]) >= 1
                 /\ Last(seen[t]).b = pick_ret[t]
                 /\ Last(seen[t]).st = HEALTHY
            ELSE /\ Len(seen[t]) = NumBackends
                 /\ {seen[t][i].b : i \in 1..Len(seen[t])} = Backends
                 /\ \A i \in 1..Len(seen[t]) : seen[t][i].st # HEALTHY

\* C6 witness: one call returned None, another returned a backend, and the
\* monitor has since taken that backend out of rotation.
C6_Witness ==
    \E t, u \in Threads :
        /\ pick_pc[t] = "ret" /\ pick_ret[t] = NoBackend
        /\ pick_pc[u] = "ret" /\ pick_ret[u] # NoBackend
        /\ status[pick_ret[u]] = UNREACHABLE

\* C7: a backend none of whose probes was ever answered 200 is NOT_INITIATED,
\* however many probes failed.
C7_NeverHealthyStaysNotInitiated ==
    \A b \in Backends : ~probes[b].ok => status[b] = NOT_INITIATED

\* C7 witness: more than max_failures failed probes and no success.
C7_Witness ==
    \E b \in Backends :
        /\ ~probes[b].ok
        /\ probes[b].fails > max_failures
        /\ failure_count[b] > max_failures
        /\ status[b] = NOT_INITIATED

(***************************************************************************)
(* Properties of the request pipeline.                                     *)
(***************************************************************************)
\* The handler has written its response to an authorized GET.
GetDone == hpc = "done" /\ req.method = GET /\ req.api_key = VALID_API_KEY

\* The X-Cache header of the one response written.
XCache == IF Len(out) = 1 THEN HeaderOf(out[1].headers, H_XCache) ELSE Absent

\* C3: a get of a key whose entry is older than TTL returns None and takes the
\* key out of the cache; a get of a key whose entry is TTL old or younger
\* returns the stored value; and a GET whose lookup finds an entry older than
\* TTL is answered from upstream with X-Cache: MISS, X-Cache: HIT being sent
\* only for an entry no older than TTL.
C3_ExpiredNeverReturned ==
    /\ (lastOp.op = "get" /\ lastOp.had # <<>>) =>
          IF lastOp.age > TTL
          THEN /\ lastOp.ret = <<>>
               /\ lastOp.gone = {lastOp.key}
               /\ ~InCache(cache, lastOp.key)
               /\ lastOp.key \notin DOMAIN expiry
          ELSE /\ lastOp.ret = lastOp.had
               /\ lastOp.gone = {}
    /\ (GetDone /\ lookupAge > TTL /\ out[1].status = 200) =>
          XCache = MISS /\ upcalls >= 1
    /\ (GetDone /\ XCache = HIT) => lookupAge >= 0 /\ lookupAge <= TTL

\* C3 witness: a second GET, sent TTL + 1 seconds after the entry was stored,
\* has been answered with X-Cache: MISS.
C3_Witness ==
    /\ GetDone
    /\ requests = 2
    /\ lookupAge = TTL + 1
    /\ XCache = MISS

\* An entry exactly TTL old is still served from the cache.
C3_AtTTL == GetDone /\ lookupAge = TTL /\ XCache = HIT

\* C8: a request without the X-API-Key header or with another key than the
\* configured one is answered 401, whatever its method; answering it changes
\* neither the cursor, the lock, the cache nor any backend, makes no call of
\* get_next_backend, of the cache or of upstream, and the handler returns
\* without a retry.
C8_Step ==
    /\ (hpc = "idle" /\ hpc' # "idle" /\ req'.api_key # VALID_API_KEY) =>
          /\ hpc' = "done"
          /\ Len(out') = 1
          /\ out'[1].status = 401
          /\ retries' = 0 /\ reqPicks' = 0 /\ upcalls' = 0
          /\ UNCHANGED <<cacheVars, cacheHist, backendVars, pickVars, pickHist>>
    /\ (hpc = "done" /\ req.api_key # VALID_API_KEY) =>
          UNCHANGED <<cacheVars, cacheHist, backendVars, current, lock, upcalls>>
              /\ hpc' \in {"done", "idle"}

C8_UnauthorizedIs401 == [][C8_Step]_vars

\* C8 witness: a PATCH with a wrong key has been answered 401 while the cache
\* holds an entry and the cursor has moved.
C8_Witness ==
    /\ hpc = "done"
    /\ req.method = PATCH
    /\ req.api_key = WrongKey
    /\ out[1].status = 401
    /\ Len(cache) > 0
    /\ current # 0
    /\ current = startCurrent

\* C9: of two identical authorized GETs within TTL of each other, the entry
\* not evicted in between, the first is answered from upstream with
\* X-Cache: MISS, and the second with X-Cache: HIT, the body of the first
\* response and no upstream call.
C9_SecondGetHits ==
    /\ (GetDone /\ ~hadFresh /\ out[1].status = 200) => XCache = MISS
    /\ (GetDone /\ hadFresh) =>
          /\ XCache = HIT
          /\ out[1].body = missBody[RequestKey(req)]
          /\ upcalls = 0

\* C10: a GET whose key has a fresh entry is answered before the balancer is
\* asked: get_next_backend is not called and the cursor stays where it was.
C10_LookupBeforePick ==
    (GetDone /\ hadFresh /\ XCache = HIT) => reqPicks = 0 /\ current = startCurrent

\* A GET whose key has a fresh entry, sent while no backend is Healthy, is
\* answered 500.
C10_NotServed ==
    /\ GetDone
    /\ hadFresh
    /\ lookupAge = 0 - 1
    /\ out[1].status = 500
    /\ upcalls = 0
    /\ \A b \in Backends : status[b] # HEALTHY

(***************************************************************************)
(* Properties of the responses.                                            *)
(***************************************************************************)
\* The handler has written one response, in full, and is about to return.
Answered == hpc = "done" /\ Len(out) = 1

\* The one response is a success, served from the cache or from upstream.
Served == Answered /\ XCache \in {HIT, MISS}

\* The encoding negotiation as specified: br before gzip before deflate, else identity.
Preferred(r) ==
    LET listed == IF r.accept_encoding = Absent THEN <<>> ELSE r.accept_encoding
    IN  IF Contains(listed, br) THEN br
        ELSE IF Contains(listed, gzip) THEN gzip
        ELSE IF Contains(listed, deflate) THEN deflate
        ELSE identity

\* C11: a response written with a body carries a Content-Length header equal
\* to the number of body bytes written, when it comes from the cache as when
\* it comes from upstream, whatever the encoding.
C11_ContentLengthIsBodyLength ==
    (Answered /\ Len(out[1].body) > 0) =>
        HeaderOf(out[1].headers, H_ContentLength) = Str(Len(out[1].body))

\* A GET that asked for gzip is answered from the cache with the compressed
\* body and the Content-Length of the body the upstream sent.
C11_HitLengthOfUpstream ==
    /\ Served
    /\ XCache = HIT
    /\ Preferred(req) = gzip
    /\ HeaderOf(out[1].headers, H_ContentLength) = Str(Len(origin[RequestKey(req)]))
    /\ Len(out[1].body) # Len(origin[RequestKey(req)])

\* C12: a successful response to a request that negotiated an encoding other
\* than identity carries Content-Encoding: <that encoding> and the upstream
\* body compressed under it, from the cache as from upstream; with identity
\* it carries no Content-Encoding and the upstream body as it was. br is
\* preferred to gzip, gzip to deflate, deflate to identity.
C12_EncodingApplied ==
    (Served /\ RequestKey(req) \in DOMAIN origin) =>
        LET encoding == Preferred(req)
            upstream_body == origin[RequestKey(req)]
        IN  /\ get_accepted_encoding(req) = encoding
            /\ IF encoding # identity
               THEN /\ HeaderOf(out[1].headers, H_ContentEncoding) = encoding
                    /\ out[1].body = compress_content(upstream_body, encoding)
               ELSE /\ HeaderOf(out[1].headers, H_ContentEncoding) = Absent
                    /\ out[1].body = upstream_body

\* A GET that asked for gzip is answered from the cache with a gzip body and
\* no Content-Encoding header.
C12_HitNotLabelled ==
    /\ Served
    /\ XCache = HIT
    /\ Preferred(req) = gzip
    /\ out[1].body = compress_content(origin[RequestKey(req)], gzip)
    /\ HeaderOf(out[1].headers, H_ContentEncoding) = Absent

\* C13: what a GET served from upstream leaves in the cache is the upstream
\* status, the upstream headers and the upstream body as received, not the
\* compressed bytes sent to the client, whatever the encoding.
C13_StoresUpstreamBody ==
    (Served /\ XCache = MISS /\ req.method = GET) =>
        LET cache_key == RequestKey(req)
        IN  /\ InCache(cache, cache_key)
            /\ CacheValue(cache, cache_key) =
                  [status |-> out[1].status,
                   headers |-> UpstreamHeaders(origin[cache_key]),
                   content |-> origin[cache_key]]

\* A GET that asked for gzip was served from upstream, and the cache holds the
\* gzip bytes that were sent to the client.
C13_StoredCompressed ==
    /\ Served
    /\ XCache = MISS
    /\ Preferred(req) = gzip
    /\ CacheValue(cache, RequestKey(req)).content = out[1].body
    /\ out[1].body = compress_content(origin[RequestKey(req)], gzip)
    /\ out[1].body # origin[RequestKey(req)]

(***************************************************************************)
(* Properties of the retry loop.                                           *)
(***************************************************************************)
\* proxy_request is running an attempt.
Attempting == hpc \in {"picking", "upstream"}

\* The attempts made for the request: each begins with a call of get_next_backend.
Attempts == reqPicks

C14_WithinBudget ==
    /\ retries <= max_retries + 1
    /\ Attempts <= max_retries + 1
    /\ upcalls <= max_retries + 1
    /\ Len(tried) = upcalls
    /\ Attempting => retries = Attempts - 1

C14_Step ==
    Attempting =>
        /\ retries' >= retries
        /\ (Attempts' # Attempts \/ (hpc' = "done" /\ retries' # retries)) =>
              retries' = retries + 1

Reply == Last(out)

\* The handler is about to return and its last response came from upstream.
ServedFromUpstream == hpc = "done" /\ HeaderOf(Reply.headers, H_XCache) = MISS

\* C15: a response served from upstream by an attempt that r failed attempts
\* went before carries X-Cache: MISS, X-Backend-Server: <the URL of the
\* backend of that attempt> and, exactly when r > 0, X-Retry-Count: r, with
\* r <= max_retries; so after one refused connection and a 200 from the next
\* pick it carries X-Retry-Count: 1 and the URL of the second pick.
C15_RetryHeaders ==
    ServedFromUpstream =>
        LET r == Attempts - 1
        IN  /\ r <= max_retries
            /\ Len(tried) >= 1
            /\ HeaderOf(Reply.headers, H_XBackendServer) = BackendUrl(Last(tried))
            /\ HeaderOf(Reply.headers, H_XRetryCount) = IF r > 0 THEN Str(r) ELSE Absent

\* C15 witness: the first pick's connection was refused, the next pick, another
\* backend, answered 200, and the response names it with X-Retry-Count: 1.
C15_Witness ==
    /\ ServedFromUpstream
    /\ Len(out) = 1
    /\ Len(tried) = 2
    /\ tried[1] # tried[2]
    /\ last_exception.kind = "url"
    /\ HeaderOf(Reply.headers, H_XRetryCount) = <<"1">>
    /\ HeaderOf(Reply.headers, H_XBackendServer) = BackendUrl(tried[2])

\* C16: a request with the key, handled while no backend was Healthy at any
\* moment and not answered from the cache, gets the one response 500 "No
\* healthy backend servers available", and no upstream call is made for it.
C16_NoHealthyIs500 ==
    (hpc = "done" /\ validate_api_key(req) /\ ~sawHealthy
        /\ HeaderOf(Reply.headers, H_XCache) # HIT) =>
        /\ Len(out) = 1
        /\ out[1].status = 500
        /\ out[1].body = <<"<html>", "No healthy backend servers available", "</html>">>
        /\ upcalls = 0

\* C16 witness: the monitor has made every backend UNREACHABLE, and a GET whose
\* key has no entry was answered 500.
C16_Witness ==
    /\ hpc = "done"
    /\ validate_api_key(req)
    /\ ~sawHealthy
    /\ ~hadFresh
    /\ \A b \in Backends : status[b] = UNREACHABLE
    /\ out[1].status = 500
    /\ upcalls = 0

\* C17: the response after the last attempt has the status of the last error:
\* the upstream's status and reason for an HTTP error, 500 for a transport
\* error and for "no backend"; and no error response is written while
\* attempts are still being made.
C17_StatusFromLastError ==
    /\ (hpc = "done" /\ retries > max_retries) =>
          /\ Reply.status = IF last_exception.kind = "http" THEN last_exception.code ELSE 500
          /\ Reply.body = <<"<html>", last_exception.reason, "</html>">>
    /\ Attempting => \A i \in 1..Len(out) : out[i].status < 400

\* The retries are used up, the last error was a refused connection, and the
\* client reads the status 200 that an earlier attempt had queued.
C17_StaleStatus ==
    /\ hpc = "done"
    /\ retries > max_retries
    /\ last_exception.kind = "url"
    /\ Len(out) = 1
    /\ out[1].status = 200
    /\ \E i \in 1..Len(out[1].headers) : out[1].headers[i] = <<StatusLine, <<"5", "0", "0">>>>

\* C18: for a request one status line and one header block are written, and
\* nothing follows body bytes: no attempt is made and no error response is
\* written once a response has been started, wherever the attempt failed.
C18_OneResponse ==
    /\ Attempting => out = <<>>
    /\ hpc = "done" =>
          /\ Len(out) = 1
          /\ \A i \in 1..Len(out[1].headers) : out[1].headers[i][1] # StatusLine

\* A response from upstream was sent with part of its body, the write raised,
\* and the upstream is called again for the same request.
C18_AttemptAfterBody ==
    /\ hpc = "upstream"
    /\ upcalls = 2
    /\ Len(out) = 1
    /\ out[1].status = 200
    /\ Len(out[1].body) > 0
    /\ last_exception = BrokenPipe

(***************************************************************************)
(* Properties of concurrent use.                                           *)
(***************************************************************************)
\* The two maps of the cache hold the same keys.
MapsAgree == Range(CacheKeys(cache)) = DOMAIN expiry

\* No thread is inside get or put.
Quiescent == \A t \in Tasks : task_pc[t] \in {"idle", "raised"}

\* C19: get and put called by threads that run at the same time behave as if
\* run one after the other: no call raises, the value map and the timestamp
\* map hold the same keys whenever a call starts, and when no call is under
\* way the cache is as some serial order leaves it: the maps agree and hold
\* at most `capacity` entries.
C19_CallsAreAtomic ==
    /\ \A t \in Tasks : task_pc[t] # "raised"
    /\ \A t \in Tasks : task_pc[t] \in {"get", "put"} => MapsAgree
    /\ Quiescent => MapsAgree /\ Len(cache) <= capacity

\* A get raised KeyError: it found its key in the value map while another
\* thread's put had not yet written the timestamp, or after another thread had
\* taken the key out.
C19_GetRaised ==
    \E t \in Tasks :
        /\ task_pc[t] = "raised"
        /\ task_arg[t].key # NoKey
        /\ task_arg[t].value = <<>>

\* C20: requests are handled at the same time: while one request is blocked in
\* its upstream call, the server can take another request in, pick a backend
\* for it and answer it.
C20_ConcurrentHandling ==
    (hpc = "upstream" /\ requests < MaxRequests) =>
        ENABLED (\E r \in Requests : do_METHOD(r))

\* One request is blocked in its upstream call, a backend is Healthy, and no
\* other request can come in.
C20_OneAtATime ==
    /\ hpc = "upstream"
    /\ requests < MaxRequests
    /\ \E b \in Backends : status[b] = HEALTHY
    /\ ~ServerFree

(***************************************************************************)
(* Properties of the headers.                                              *)
(***************************************************************************)
\* The names of the header lines of a response, lower-cased.
HeaderNames(response) == {Lower(response.headers[i][1]) : i \in 1..Len(response.headers)}

\* C21: no hop-by-hop header (Connection, Keep-Alive, Proxy-Authenticate,
\* Proxy-Authorization, TE, Trailers, Transfer-Encoding, Upgrade, in any case)
\* is in a response the proxy writes, from upstream, from the cache or for an
\* error, and none is among the headers sent to the upstream.
C21_NoHopByHop ==
    /\ \A i \in 1..Len(out) : HeaderNames(out[i]) \cap HopByHop = {}
    /\ hpc = "upstream" => \A n \in DOMAIN ForwardedHeaders(req) : Lower(n) \notin HopByHop

\* The retries of a request with the key are used up and the error response
\* carries Connection: close.
C21_ErrorPageConnection ==
    /\ hpc = "done"
    /\ validate_api_key(req)
    /\ retries > max_retries
    /\ Len(out) = 1
    /\ out[1].status >= 500
    /\ HeaderOf(out[1].headers, H_Connection) = <<"c", "l", "o", "s", "e">>

(***************************************************************************)
(* Properties of the cache key.                                            *)
(***************************************************************************)
\* The value of a header of a call, Absent when the call has none.
KeyHeader(c, name) == IF name \in DOMAIN c.headers THEN c.headers[name] ELSE Absent

\* What the key is meant to tell apart: method, path, body, encoding and the
\* values of Accept and Content-Type.
KeyFields(c) ==
    <<c.method, c.path, c.body, c.encoding, KeyHeader(c, H_Accept), KeyHeader(c, H_ContentType)>>

\* Two calls that agree on all of that hash the same string, whatever other
\* headers they carry.
KeyDeterministic ==
    (key_strings # <<>> /\ KeyFields(key_args[1]) = KeyFields(key_args[2])) =>
        key_strings[1] = key_strings[2]

\* C22: two calls of generate_cache_key hash the same string when they agree
\* on method, path, body, encoding, Accept and Content-Type, whatever other
\* headers they carry, and different strings when they differ in one of
\* them: the '|'-joined string encodes those fields injectively.
C22_KeyDiscriminates ==
    key_strings # <<>> =>
        (key_strings[1] = key_strings[2] <=> KeyFields(key_args[1]) = KeyFields(key_args[2]))

\* Two calls with the same method, path and encoding, one with a body and
\* one without, hash the same string.
C22_Collision ==
    /\ key_strings # <<>>
    /\ key_strings[1] = key_strings[2]
    /\ key_args[1].body = BodyYo
    /\ key_args[2].body = <<>>
    /\ KeyHeader(key_args[1], H_Accept) # KeyHeader(key_args[2], H_Accept)

(***************************************************************************)
(* Properties of the health state machine.                                 *)
(***************************************************************************)
\* C23: a backend that was Healthy is UNREACHABLE from its max_failures-th
\* failed probe in a row since its last 200 on, and Healthy until then, a
\* probe answered with another status counting like one that raised; and
\* failure_count is the number of those probes.
C23_DemotedAtMaxFailures ==
    \A b \in Backends :
        probes[b].ok =>
            /\ failure_count[b] = probes[b].fails
            /\ status[b] = IF probes[b].fails >= max_failures THEN UNREACHABLE ELSE HEALTHY

\* C23 witness: the third failed probe since a 200, one of them answered with
\* another status and one with an exception, has just made a backend UNREACHABLE.
C23_Witness ==
    \E b \in Backends :
        /\ probes[b].ok
        /\ probes[b].fails = max_failures
        /\ probe_log[b].kinds = {"non200", "error"}
        /\ status[b] = UNREACHABLE
        /\ last_check[b] = now

\* The monitor has just sent a probe to backend b and it was answered 200.
Probed200(b) == mon_i = b /\ mon_i' = b + 1 /\ ~TooSoon(b) /\ probes'[b].fails = 0

C24_Step ==
    \A b \in Backends :
        Probed200(b) =>
            /\ status'[b] = HEALTHY
            /\ failure_count'[b] = 0
            /\ last_healthy'[b] = now
            /\ last_check'[b] = now

\* C24: a probe answered 200 leaves the backend HEALTHY with failure_count 0
\* and last_healthy the time of the probe, whatever its status and however
\* large its failure_count was.
C24_SuccessResets == [][C24_Step]_vars

\* C24 witness: a backend that was UNREACHABLE with max_failures failures,
\* and one that was NOT_INITIATED with more, have been probed with a 200 and
\* are Healthy with failure_count 0.
C24_Witness ==
    \E b, c \in Backends :
        /\ probe_log[b].was = UNREACHABLE /\ probe_log[b].count >= max_failures
        /\ probe_log[c].was = NOT_INITIATED /\ probe_log[c].count > max_failures
        /\ \A d \in {b, c} :
              /\ status[d] = HEALTHY
              /\ failure_count[d] = 0
              /\ last_healthy[d] = last_check[d]
        /\ last_healthy[c] = now

(***************************************************************************)
(* Properties of the pick.                                                 *)
(***************************************************************************)
\* Thread t is inside get_next_backend, or has returned from it.
InPick(t) == pick_pc[t] \in {"examine", "advance", "ret"}

\* The i-th backend after the cursor c, in cyclic order.
After(c, i) == (c + i) % NumBackends

C25_Examined ==
    \A t \in Threads :
        LET n == Len(seen[t])
        IN  /\ InPick(t) =>
                /\ n <= NumBackends
                /\ \A i \in 1..n : seen[t][i].b = After(pick_start[t], i)
                /\ \A i \in 1..(n - 1) : seen[t][i].st # HEALTHY
            /\ pick_pc[t] = "examine" => current = After(pick_start[t], n + 1)
            /\ pick_pc[t] = "advance" => current = After(pick_start[t], n)
            /\ pick_pc[t] = "ret" =>
                  IF pick_ret[t] # NoBackend
                  THEN seen[t][n].b = pick_ret[t] /\ seen[t][n].st = HEALTHY
                  ELSE n = NumBackends /\ seen[t][n].b = pick_start[t]

C25_Step ==
    \A t \in Threads :
        /\ (pick_pc[t] \in {"idle", "ret"} /\ pick_pc'[t] = "examine") =>
              pick_start'[t] = current /\ current' = After(current, 1)
        /\ (pick_pc[t] = "examine" /\ pick_pc'[t] = "ret") =>
              current' = IF pick_ret'[t] # NoBackend THEN pick_ret'[t] ELSE pick_start[t]

\* C25: get_next_backend examines the backends after the cursor in cyclic
\* order, the one at the cursor last, moving the cursor once per backend
\* examined; it returns the first it reads as Healthy and leaves the cursor
\* on it, so that from cursor 0 with B0 and B1 Healthy the picks are B1, B0,
\* B1, B0; it returns None after examining all NumBackends, the cursor back
\* where it started.
C25_RoundRobinPick == []C25_Examined /\ [][C25_Step]_vars

\* C25 witness: a call that started at the cursor of a Healthy backend passed
\* the other, not Healthy, and returned the one at the cursor, examined last;
\* another call returned None.
C25_Witness ==
    \E t, u \in Threads :
        /\ pick_pc[t] = "ret"
        /\ Len(seen[t]) = NumBackends
        /\ pick_ret[t] = pick_start[t]
        /\ current = pick_ret[t]
        /\ pick_pc[u] = "ret"
        /\ pick_ret[u] = NoBackend

(***************************************************************************)
(* Properties of the attempts.                                             *)
(***************************************************************************)
\* C26: when get_next_backend returns None the loop is left at once with "no
\* healthy backend" as the last error: no attempt follows, and a request
\* whose first call returned None has called get_next_backend once.
C26_NoBackendEndsLoop ==
    last_exception = NoHealthyBackend =>
        /\ hpc = "done"
        /\ upcalls = 0 => reqPicks = 1

\* get_next_backend returned None three times for one request, which was
\* then answered 500.
C26_PickedThreeTimes ==
    /\ hpc = "done"
    /\ last_exception = NoHealthyBackend
    /\ upcalls = 0
    /\ reqPicks = max_retries + 1
    /\ retries = max_retries + 1
    /\ Len(out) = 1
    /\ out[1].status = 500

\* The fields of the backends that the monitor's check_health maintains.
HealthFields == <<status, failure_count, last_check, last_healthy>>

C27_Step ==
    /\ handlerVars' # handlerVars => HealthFields' = HealthFields
    /\ HealthFields' # HealthFields => mon_i' = mon_i + 1 /\ ~TooSoon(mon_i)

C28_RetryElsewhere ==
    \A i \in 2..Len(tried) : tried[i] # tried[i - 1]

\* All three upstream calls of a request went to the one backend that is
\* Healthy, the other not being in rotation.
C28_SameBackendAgain ==
    /\ hpc = "done"
    /\ Len(tried) = max_retries + 1
    /\ \A i \in 1..Len(tried) : tried[i] = tried[1]
    /\ \E b \in Backends : b # tried[1] /\ status[b] # HEALTHY
    /\ retries > max_retries

\* The upstream request proxy_request is to make for request r.
Forwarded(r) ==
    [method |-> r.method, path |-> r.path, headers |-> ForwardedHeaders(r), body |-> r.body]

\* C29: the body is read from the client once for a request, Content-Length
\* bytes of it; every upstream request made for it, the first and each
\* retry, carries its method, its path, its forwarded headers and that body;
\* and no retry reads from the client again, so none waits for the client.
C29_BodyReadOnce ==
    /\ reads <= 1
    /\ hpc # "reading"
    /\ \A i \in 1..Len(sent) : sent[i] = Forwarded(req)

\* The first upstream call of a POST with a body failed, and the retry is in
\* rfile.read, waiting for Content-Length more bytes from a client that has
\* sent all it had.
C29_RetryWaitsForBody ==
    /\ hpc = "reading"
    /\ req.body = BodyYo
    /\ retries = 1
    /\ reads = 2
    /\ sent = <<Forwarded(req)>>
    /\ rfile = <<>>

(***************************************************************************)
(* Properties of the methods.                                              *)
(***************************************************************************)
\* The request being handled carries the key and is not a GET.
NotGet == validate_api_key(req) /\ req.method # GET

C30_Step == (NotGet /\ handlerVars' # handlerVars) => UNCHANGED <<cache, expiry, lastOp>>

C30_NoHit == NotGet => \A i \in 1..Len(out) : HeaderOf(out[i].headers, H_XCache) # HIT

\* C30: the handling of a POST, PUT, DELETE, PATCH, HEAD or OPTIONS request
\* calls neither get nor put of the cache and leaves its entries and their
\* order as they were, and its response never carries X-Cache: HIT, an entry
\* for a GET of the same path being there or not.
C30_OnlyGetUsesCache == []C30_NoHit /\ [][C30_Step]_vars

\* C30 witness: a request that is not a GET was answered from upstream while
\* the cache holds the response of a GET of the same path, stored by the
\* last call made to the cache.
C30_Witness ==
    /\ hpc = "done"
    /\ NotGet
    /\ requests = 2
    /\ XCache = MISS
    /\ InCache(cache, RequestKey([req EXCEPT !.method = GET]))
    /\ lastOp.op = "put"
    /\ lastOp.key = RequestKey([req EXCEPT !.method = GET])

(***************************************************************************)
(* Properties of the two maps of the cache.                                *)
(***************************************************************************)
\* C37: after every get and every put, run one after the other, the value
\* map and the timestamp map hold the same keys: an expired entry read and
\* an entry evicted are gone from both, and a key put is in both.
C37_SameKeys ==
    /\ DOMAIN expiry = Range(CacheKeys(cache))
    /\ lastOp.gone \cap DOMAIN expiry = {}
    /\ (lastOp.op = "put" /\ lastOp.key \notin lastOp.gone) =>
          lastOp.key \in DOMAIN expiry /\ InCache(cache, lastOp.key)

\* C37 witness: a get has just taken an expired entry out while another entry
\* stays, after a put had evicted one.
C37_Witness ==
    /\ lastOp.op = "get"
    /\ lastOp.gone = {lastOp.key}
    /\ lastOp.age > TTL
    /\ Len(cache) >= 1
    /\ Len(touch) > capacity

\* A put of value on a key the cache holds: the entry goes last with the new
\* value and the time of the call, and nothing else changes.
C32_PutReplaces(key, value) ==
    /\ Len(cache') = Len(cache)
    /\ Last(cache') = [key |-> key, value |-> value]
    /\ SubSeq(cache', 1, Len(cache') - 1) = CachePop(cache, key)
    /\ DOMAIN expiry' = DOMAIN expiry
    /\ expiry'[key] = now
    /\ \A k \in (DOMAIN expiry) \ {key} : expiry'[k] = expiry[k]

\* A get of a key that hits: the entry goes last as it is, and no timestamp
\* changes.
C32_HitReorders(key) ==
    /\ Len(cache') = Len(cache)
    /\ Last(cache') = [key |-> key, value |-> CacheValue(cache, key)]
    /\ SubSeq(cache', 1, Len(cache') - 1) = CachePop(cache, key)
    /\ expiry' = expiry

C32_Step ==
    /\ \A key \in DriverKeys : \A value \in DriverValues :
          (CallPut(key, value) /\ InCache(cache, key)) => C32_PutReplaces(key, value)
    /\ \A key \in DriverKeys :
          (CallGet(key) /\ get_result(key) # <<>>) => C32_HitReorders(key)

\* A get of an entry older than TTL returns None, also when the call before
\* it read the same entry with a hit.
C32_ReadDoesNotExtend ==
    (lastOp.op = "get" /\ readBefore = lastOp.key /\ lastOp.age > TTL) => lastOp.ret = <<>>

\* C32: a put on a key that is present replaces the value, sets the entry's
\* timestamp to the time of the call, makes it the most recently used and
\* evicts nothing; a get that hits only makes the entry the most recently
\* used and leaves its timestamp, so that the entry expires TTL after its
\* last put however often it is read.
C32_PutRestampsGetDoesNot == []C32_ReadDoesNotExtend /\ [][C32_Step]_vars

\* C32 witness: the cache being full, a put has replaced the value of the
\* older entry, which was stamped earlier and read with a hit just before.
C32_Witness ==
    /\ lastOp.op = "put"
    /\ lastOp.had # <<>>
    /\ lastOp.had[1] # CacheValue(cache, lastOp.key)
    /\ lastOp.age > 0
    /\ lastOp.gone = {}
    /\ readBefore = lastOp.key
    /\ Len(cache) = capacity
    /\ Last(cache).key = lastOp.key
    /\ expiry[lastOp.key] = now

\* An entry read with a hit is asked for again when it is older than TTL.
C32_ReadThenExpired ==
    lastOp.op = "get" /\ readBefore = lastOp.key /\ lastOp.age > TTL /\ lastOp.ret = <<>>

(***************************************************************************)
(* The fields of a backend under the probes of the monitor.                *)
(***************************************************************************)
C33_Fields(b) ==
    /\ status[b] = NOT_INITIATED <=> last_healthy[b] = NoTime
    /\ status[b] = HEALTHY => failure_count[b] < max_failures
    /\ status[b] = UNREACHABLE => last_healthy[b] # NoTime /\ failure_count[b] >= max_failures
    /\ failure_count[b] >= 0

C33_Step == \A b \in Backends : status[b] # NOT_INITIATED => status'[b] # NOT_INITIATED

\* C33: whatever the probes come to, each backend is NOT_INITIATED exactly
\* when last_healthy is unset, HEALTHY only with failure_count below
\* max_failures, UNREACHABLE only with last_healthy set and failure_count at
\* max_failures or more; failure_count is never negative, and a backend that
\* has left NOT_INITIATED does not come back to it.
C33_HealthFields == [](\A b \in Backends : C33_Fields(b)) /\ [][C33_Step]_vars

\* C33 witness: one backend, whose last 200 came after failed probes, was
\* demoted at max_failures, and another has failed more often without ever
\* having been healthy.
C33_Witness ==
    \E b, c \in Backends :
        /\ status[b] = UNREACHABLE
        /\ failure_count[b] >= max_failures
        /\ last_healthy[b] # NoTime
        /\ status[c] = NOT_INITIATED
        /\ failure_count[c] > max_failures
        /\ probe_log # NoLog
        /\ probe_log[b].count > 0

(***************************************************************************)
(* Properties of what the handler stores in the cache.                     *)
(***************************************************************************)
\* The step inserts no entry, replaces no value and sets no timestamp.
C36_NoWrite ==
    /\ Range(cache') \subseteq Range(cache)
    /\ DOMAIN expiry' \subseteq DOMAIN expiry
    /\ \A k \in DOMAIN expiry' : expiry'[k] = expiry[k]

\* The step is the return of urlopen with a response whose body is read.
C36_UpstreamSucceeds ==
    \E o \in UpstreamOutcomes, w \in ClientWrites : o.kind = "ok" /\ Upstream(o, w)

C36_Step ==
    /\ ~C36_NoWrite =>
          /\ C36_UpstreamSucceeds
          /\ req.method = GET
          /\ Last(cache').key = RequestKey(req)
          /\ Last(cache').value.status = 200
          /\ Last(cache').value.content \in {BodyHi, BodyYo, compress_content(BodyHi, gzip),
                                             compress_content(BodyYo, gzip)}
    /\ \A o \in UpstreamOutcomes \cup {ReadFailure}, w \in ClientWrites :
          (o.kind # "ok" /\ Upstream(o, w)) => C36_NoWrite
    /\ (\E w \in ClientWrites : AfterPick(w)) => C36_NoWrite
    /\ (hpc' = "done" /\ hpc # "done" /\ out'[Len(out')].status >= 400
            /\ last_exception' # BrokenPipe) => C36_NoWrite

C36_NoErrorStored ==
    /\ \A i \in 1..Len(cache) : cache[i].value.status = 200
    /\ \A i \in 1..Len(out) :
          HeaderOf(out[i].headers, H_XCache) = HIT => out[i].status = 200

\* C36: the handler writes a cache entry only in the step of a GET in which
\* urlopen has returned a response and its body has been read; an attempt
\* that ends with an HTTP error status, a transport error or without a
\* backend inserts and replaces nothing, so that no entry holds an error and
\* no X-Cache: HIT response is one.
C36_OnlySuccessStored == []C36_NoErrorStored /\ [][C36_Step]_vars

\* C36 witness: a GET has been answered 500 after three attempts that failed
\* upstream, the entry an earlier GET had stored being in the cache as it
\* was.
C36_Witness ==
    /\ GetDone
    /\ requests = 2
    /\ out[Len(out)].status >= 500
    /\ upcalls = max_retries + 1
    /\ Len(cache) = 1
    /\ lastOp.op = "get"

\* An entry was stored by an attempt whose write to the client then raised:
\* the upstream call had succeeded.
C36_StoredThenWriteFailed ==
    /\ hpc \in {"picking", "upstream", "done"}
    /\ retries > 0
    /\ last_exception = BrokenPipe
    /\ lastOp.op = "put"
    /\ lastOp.key = RequestKey(req)

(***************************************************************************)
(* get_next_backend as a function of the list of statuses and the cursor,  *)
(* for one caller at a time and statuses that do not change during the     *)
(* call, on a list of RingSize backends.                                   *)
(***************************************************************************)
RingSize == 3
MaxReturns == 6

\* A scan that moves the cursor one place per call and returns the first
\* Healthy backend from there on, without keeping the place it found it at.
Scan_CursorByOne(sts, start, cur) ==
    LET n == Len(sts)
        c == (start + 1) % n
        offs == {d \in 0..(n - 1) : Usable(sts[((c + d) % n) + 1])}
    IN  IF offs = {}
        THEN [ret |-> NoBackend, current |-> c]
        ELSE [ret |-> (c + (CHOOSE d \in offs : \A e \in offs : d <= e)) % n, current |-> c]

\* The while loop of get_next_backend with self.current = cur: what the call
\* returns and where it leaves the cursor.
RECURSIVE Scan(_, _, _)
Scan(sts, start, cur) ==
    LET c == (cur + 1) % Len(sts)
    IN  IF Usable(sts[c + 1]) THEN [ret |-> c, current |-> c]
        ELSE IF c = start THEN [ret |-> NoBackend, current |-> c]
        ELSE Scan(sts, start, c)

\* A call of get_next_backend on the list.
RingCall ==
    /\ ring # NoRing
    /\ Len(ring.returned) < MaxReturns
    /\ LET r == Scan(ring.status, ring.current, ring.current)
       IN  ring' = [ring EXCEPT !.current = r.current, !.returned = Append(@, r.ret)]
    /\ UNCHANGED <<now, cacheVars, cacheHist, taskVars, keyVars, up, serves, backendVars, monVars,
                   pickVars, pickHist, handlerVars, handlerHist>>

\* Any statuses and any place of the cursor.
InitRing ==
    /\ Constructed
    /\ key_args = NoKeyCalls
    /\ key_strings = <<>>
    /\ probe_log = NoLog
    /\ stable = NotKept
    /\ serves = [b \in Backends |-> "any"]
    /\ ring \in [status : [1..RingSize -> HostStatus], current : 0..(RingSize - 1),
                 returned : {<<>>}]

NextRing == RingCall

SpecRing == InitRing /\ [][NextRing]_vars

\* Where the calls are run statement by statement and `seen` is kept
\* (SpecBalancer): a call has returned what the function gives for the
\* statuses it read, when they are the statuses still.
ScanAgrees ==
    \A t \in Threads :
        (pick_pc[t] = "ret" /\ \A i \in 1..Len(seen[t]) : seen[t][i].st = status[seen[t][i].b]) =>
            pick_ret[t] = Scan([i \in 1..NumBackends |-> status[i - 1]],
                               pick_start[t], pick_start[t]).ret

\* The Healthy backends of the list.
RingHealthy == {b \in 0..(RingSize - 1) : ring.status[b + 1] = HEALTHY}

\* C34: the statuses staying as they are and nothing else moving the cursor,
\* with k >= 1 Healthy backends any k calls in a row return each Healthy
\* backend once, whatever the states and places of the others.
C34_EachHealthyOnce ==
    (ring # NoRing /\ RingHealthy # {}) =>
        LET k == Cardinality(RingHealthy)
        IN  \A j \in 1..(Len(ring.returned) - k + 1) :
                {ring.returned[j + i] : i \in 0..(k - 1)} = RingHealthy

\* C34 witness: of three backends the last is UNREACHABLE; six calls have
\* returned the first, which follows it, as often as the second.
C34_Witness ==
    /\ ring # NoRing
    /\ ring.status = <<HEALTHY, HEALTHY, UNREACHABLE>>
    /\ Len(ring.returned) = MaxReturns
    /\ Cardinality({j \in 1..MaxReturns : ring.returned[j] = 0}) = 3
    /\ Cardinality({j \in 1..MaxReturns : ring.returned[j] = 1}) = 3

(***************************************************************************)
(* The monitor thread and a caller of get_next_backend that both keep      *)
(* running, and backends that come back.                                   *)
(***************************************************************************)
\* Backend b starts to answer its /health probes with 200 and goes on doing
\* so, at a moment after which the clock of the model has a round left.
ComesUp(b) ==
    /\ up[b] = "any"
    /\ now <= MaxMonitorTicks
    /\ up' = [up EXCEPT ![b] = "yes"]
    /\ UNCHANGED <<now, cacheVars, cacheHist, taskVars, keyVars, serves, ring, backendVars, monVars,
                   pickVars, pickHist, handlerVars, handlerHist>>

InitRecover == InitMonitor

NextRecover ==
    \/ \E o \in ProbeOutcomes : MonitorCheck(o)
    \/ MonitorSleep(MaxMonitorTicks)
    \/ \E b \in Backends : ComesUp(b)
    \/ get_next_backend(Handler)

\* The monitor is a thread of its own, in `while True` with nothing to
\* wait for but the probe's timeout and its sleep: its next statement is
\* run. Handlers keep calling get_next_backend as long as requests come in.
RecoverFairness ==
    /\ WF_vars(\E o \in ProbeOutcomes : MonitorCheck(o))
    /\ WF_vars(MonitorSleep(MaxMonitorTicks))
    /\ WF_vars(get_next_backend(Handler))

SpecRecover == InitRecover /\ [][NextRecover]_vars /\ RecoverFairness

\* The round of the monitor is over: it sleeps.
RoundOver == mon_i = NumBackends

\* The call of the handler thread has just returned backend b.
Returned(b) == pick_pc[Handler] = "ret" /\ pick_ret[Handler] = b

\* The monitor has a next statement to run: a probe inside a round, the
\* sleep after it as long as the clock of the model has a round left.
MonitorCanStep ==
    IF RoundOver
    THEN now <= MaxMonitorTicks => ENABLED MonitorSleep(MaxMonitorTicks)
    ELSE ENABLED (\E o \in ProbeOutcomes : MonitorCheck(o))

\* C31: the monitor goes on round after round, whatever the probes come to
\* and also with every backend UNREACHABLE: each round probes every backend,
\* the last round the clock of the model allows is reached, and a backend
\* whose probes are answered 200 from some moment on becomes HEALTHY, is
\* returned by get_next_backend again and stays HEALTHY.
C31_MonitorKeepsProbing ==
    /\ [](RoundOver => \A b \in Backends : last_check[b] = now)
    /\ [](MonitorCanStep)
    /\ <>(RoundOver /\ now = MaxMonitorTicks + 1)
    /\ \A b \in Backends : (up[b] = "yes") ~> (status[b] = HEALTHY /\ Returned(b))
    /\ [][\A b \in Backends : (up[b] = "yes" /\ status[b] = HEALTHY) => status'[b] = HEALTHY]_vars

\* C31 witness: every backend had been UNREACHABLE for a round or more when
\* one of them began to answer; it is HEALTHY again, found UNREACHABLE by
\* the probe that was answered, and the call has just returned it.
C31_Witness ==
    \E b \in Backends :
        /\ up[b] = "yes"
        /\ status[b] = HEALTHY
        /\ probe_log[b].was = UNREACHABLE
        /\ last_healthy[b] = now
        /\ Returned(b)
        /\ \A c \in Backends \ {b} : status[c] = UNREACHABLE /\ failure_count[c] > max_failures

(***************************************************************************)
(* The proxy with backends that either answer the requests sent to them or *)
(* fail them, each always the same way, whatever their /health answers.    *)
(***************************************************************************)
InitServe ==
    /\ Constructed
    /\ key_args = NoKeyCalls
    /\ key_strings = <<>>
    /\ probe_log = NoLog
    /\ stable = "idle"
    /\ serves \in [Backends -> {"ok", "fail"}]
    /\ ring = NoRing

NextServe ==
    \/ \E r \in RetryRequests : do_METHOD(r)
    \/ Picking
    \/ AfterPick("ok")
    \/ \E o \in UpstreamOutcomes : Upstream(o, "ok")
    \/ Finish
    \/ MonitorNext(MaxCacheTicks)

\* The handler thread keeps running, and an upstream call comes back.
ServeFairness ==
    /\ WF_vars(Picking)
    /\ WF_vars(AfterPick("ok"))
    /\ WF_vars(\E o \in UpstreamOutcomes : Upstream(o, "ok"))

SpecServe == InitServe /\ [][NextServe]_vars /\ ServeFairness

\* The Healthy backends that answer the requests, and those that fail them.
Working == {b \in Backends : status[b] = HEALTHY /\ serves[b] = "ok"}
Failing == {b \in Backends : status[b] = HEALTHY /\ serves[b] = "fail"}

\* The request is over, no status having changed since it came in, with a
\* Healthy backend that answers and max_retries or fewer that fail: it has
\* been answered with one successful response, from the cache or from a
\* backend that answers, after no more retries than backends fail.
C35_Succeeds ==
    (hpc = "done" /\ validate_api_key(req) /\ stable = "yes" /\ Working # {}
        /\ Cardinality(Failing) <= max_retries) =>
          /\ Len(out) = 1
          /\ out[1].status = 200
          /\ XCache \in {HIT, MISS}
          /\ retries <= Cardinality(Failing)
          /\ XCache = MISS =>
                /\ Last(tried) \in Working
                /\ HeaderOf(out[1].headers, H_XBackendServer) = BackendUrl(Last(tried))

====
